---- MODULE Spec2Model ----
(***************************************************************************)
(* Verification model of the podcast-agent curation core:                  *)
(*   - scoring / ranking            (src/src/analysis/prioritize.py)       *)
(*   - bucketing and quota refill   (category_selector.py,                 *)
(*                                   quota_redistributor.py)               *)
(*   - duplicate detection and the Seen-Store (processors/dedup.py)        *)
(*   - article grouping             (analysis/article_grouper.py)          *)
(*   - issue creation with retries  (output/github_client.py)              *)
(*   - AI call retries              (processors/ai/retry.py)               *)
(*   - monthly archive              (analysis/monthly_archive.py)          *)
(*   - concurrent fetching and the run loop (orchestrator.py)              *)
(*   - high-priority filter         (analysis/priority_analyzer.py)        *)
(*   - grouped-issue pipeline       (pipeline/issue_pipeline.py,           *)
(*                                   analysis/duplicate_tracker.py)        *)
(*                                                                         *)
(* Strings that the code inspects character by character (titles, body     *)
(* text) are sequences of Unicode code points.  Scores are exact rationals *)
(* scaled by 1000 * horizon_days, so that every score is an integer.       *)
(***************************************************************************)
EXTENDS Integers, Sequences, FiniteSets, TLC

VARIABLES
    \* ---- ranking / selection component ----
    articles,       \* the Iterable[Article] handed to the entry point
    pc,             \* position of the ranking/selection component
    per_category,   \* per_category / per_category_limit argument
    total,          \* total / target_total argument
    selected,       \* the initial selection handed to redistribute_shortfalls
    final,          \* the value returned by redistribute_shortfalls
    global_tail,    \* the sorted overflow pool built by redistribute_shortfalls
    top_n,          \* top_n argument of prioritize_articles
    ranked,         \* the value returned by prioritize_articles
    ranked2,        \* the value returned by a second run on reordered input
    \* ---- duplicate detector / Seen-Store component ----
    seen_hashes,    \* Deduplicator._seen_hashes
    titles,         \* Deduplicator._titles
    embeddings,     \* Deduplicator._embeddings
    enable_semantic,\* Deduplicator.enable_semantic
    model_loaded,   \* Deduplicator._model is not None
    np_available,   \* module-level _np is not None
    config,         \* constructor arguments of the Deduplicator
    store_file,     \* content of the store file on disk
    last_call,      \* what the last public call did and returned
    marked_run,     \* articles passed to mark_seen in this process
    saved_ever,     \* articles whose mark_seen call has returned (any process)
    marks,          \* number of mark_seen calls so far (bounded)
    restarts,       \* number of process restarts so far (bounded)
    \* ---- article grouper ----
    group_input,    \* the Iterable[Article] handed to group_related_articles
    max_per_group,  \* max_per_group argument
    groups,         \* the value returned by group_related_articles
    gpc,            \* position of the grouper
    \* ---- issue tracker client (GitHubClient.create_issue) ----
    gh_client,      \* GitHubClient._client is not None (a token was given)
    gh_dry_run,     \* GitHubClient.dry_run
    gh_repo_name,   \* GitHubClient.repo_name
    gh_repo,        \* GitHubClient._repo
    gh_pc,          \* position inside create_issue
    gh_attempt,     \* loop variable `attempt` of create_issue
    gh_trace,       \* creation attempts and sleeps made so far, in order
    gh_result,      \* what create_issue returned or raised
    \* ---- retry helper (with_retries) ----
    wr_retries,     \* `retries` (the argument, then the effective value)
    wr_backoff,     \* `backoff` as <<numerator, denominator>>
    wr_env,         \* os.environ: AI_RETRIES and AI_BACKOFF
    wr_optimized,   \* interpreter started with -O (assert statements removed)
    wr_pc,          \* position inside with_retries
    wr_attempt,     \* loop variable `attempt`
    wr_last_exc,    \* local `last_exc`
    wr_trace,       \* calls of fn and sleeps so far, in order
    wr_result,      \* what with_retries returned or raised
    \* ---- monthly archive (MonthlyArchive) ----
    ar_file,        \* content of base_dir/<month>.json
    ar_prev_file,   \* its content before the last store_articles call
    ar_last_batch,  \* `articles` of the last store_articles call
    ar_repeated,    \* the last call stored the same articles as the one before
    ar_live,        \* articles stored so far and not replaced by a later one
    ar_loaded,      \* the value returned by load_monthly_articles
    ar_pc,          \* last operation of the archive
    \* ---- concurrent fetch (Orchestrator.fetch_all) ----
    fa_sources,     \* src_list
    fa_per_source,  \* Orchestrator.max_items_per_source
    fa_max_total,   \* Orchestrator.max_total_items
    fa_futures,     \* per submitted source: worker position and its outcome
    fa_collected,   \* the futures as_completed has yielded so far, in order
    fa_results,     \* local `results` of fetch_all
    fa_pc,          \* position of the thread that called fetch_all
    fa_return,      \* what fetch_all returned or raised
    \* ---- Orchestrator.run ----
    run_dry_run,    \* Orchestrator.dry_run
    run_fast_dry,   \* local `fast_dry` (FAST_DRY_RUN set and dry_run)
    run_token,      \* GITHUB_TOKEN / GITHUB_API_KEY is set
    run_backend_ok, \* PROCESSING_BACKEND names a supported backend
    run_max_total,  \* Orchestrator.max_total_items
    run_fetched,    \* local `fetched_all`
    run_i,          \* number of items the loop has taken from fetched_all
    run_art,        \* loop variable `art` (the Article being processed)
    run_answer,     \* what classify_with_retry did for `art`
    run_prior_titles, \* local `prior_titles`
    run_marked,     \* positions of the items passed to mark_seen in this run
    run_issues,     \* issues created (or logged, in dry-run), in order
    run_processed,  \* local `processed_non_duplicate`
    run_pc,         \* position inside run
    run_error,      \* the exception that left run, if any
    \* ---- filter_high_priority ----
    fh_articles,    \* `articles` argument
    fh_min_score,   \* `min_score` argument, in thousandths
    fh_top_n,       \* `top_n` argument (Optional[int])
    fh_result,      \* the value returned
    fh_pc,          \* position of the caller
    \* ---- run_auto_issue_pipeline ----
    pl_articles,    \* `articles` argument
    pl_dry_run,     \* `dry_run` argument
    pl_token,       \* GITHUB_TOKEN / GITHUB_API_KEY is set
    pl_groups,      \* local `groups`
    pl_payloads,    \* local `payloads`: per payload the position of its group
    pl_results,     \* `results` inside create_issues_batch, then in the pipeline
    pl_records,     \* DuplicateTracker._records
    pl_history,     \* content of .cache/issue-history.json
    pl_tracker,     \* the issues that exist in the issue tracker
    pl_runs,        \* number of pipeline runs started
    pl_pc,          \* position inside run_auto_issue_pipeline
    pl_return       \* what the pipeline returned or raised

selvars == <<articles, pc, per_category, total, selected, final, global_tail,
             top_n, ranked, ranked2>>
dedupvars == <<seen_hashes, titles, embeddings, enable_semantic, model_loaded,
               np_available, config, store_file, last_call,
               marked_run, saved_ever, marks, restarts>>
groupvars == <<group_input, max_per_group, groups, gpc>>
issuevars == <<gh_client, gh_dry_run, gh_repo_name, gh_repo, gh_pc,
               gh_attempt, gh_trace, gh_result>>
retryvars == <<wr_retries, wr_backoff, wr_env, wr_optimized, wr_pc, wr_attempt,
               wr_last_exc, wr_trace, wr_result>>
archivevars == <<ar_file, ar_prev_file, ar_last_batch, ar_repeated, ar_live,
                 ar_loaded, ar_pc>>
fetchvars == <<fa_sources, fa_per_source, fa_max_total, fa_futures, fa_collected,
               fa_results, fa_pc, fa_return>>
runvars == <<run_dry_run, run_fast_dry, run_token, run_backend_ok, run_max_total,
             run_fetched, run_i, run_art, run_answer, run_prior_titles,
             run_marked, run_issues, run_processed, run_pc, run_error>>
filtervars == <<fh_articles, fh_min_score, fh_top_n, fh_result, fh_pc>>
pipevars == <<pl_articles, pl_dry_run, pl_token, pl_groups, pl_payloads, pl_results,
              pl_records, pl_history, pl_tracker, pl_runs, pl_pc, pl_return>>
restvars == <<issuevars, retryvars, archivevars, fetchvars, runvars, filtervars, pipevars>>
vars == <<selvars, dedupvars, groupvars, restvars>>

\* what each component leaves alone
NotSel == <<dedupvars, groupvars, restvars>>
NotDedup == <<selvars, groupvars, restvars>>
NotGroup == <<selvars, dedupvars, restvars>>
NotIssue == <<selvars, dedupvars, groupvars, retryvars, archivevars, fetchvars, runvars, filtervars, pipevars>>
NotRetry == <<selvars, dedupvars, groupvars, issuevars, archivevars, fetchvars, runvars, filtervars, pipevars>>
NotArchive == <<selvars, dedupvars, groupvars, issuevars, retryvars, fetchvars, runvars, filtervars, pipevars>>
NotFetch == <<selvars, dedupvars, groupvars, issuevars, retryvars, archivevars, runvars, filtervars, pipevars>>
NotFilter == <<selvars, dedupvars, groupvars, issuevars, retryvars, archivevars, fetchvars, runvars, pipevars>>
NotPipe == <<selvars, dedupvars, groupvars, issuevars, retryvars, archivevars, fetchvars, runvars, filtervars>>
\* Orchestrator.run owns a Deduplicator: it leaves the other components alone
NotRun == <<selvars, groupvars, issuevars, retryvars, archivevars, fetchvars, filtervars, pipevars>>

-----------------------------------------------------------------------------
(* Bounds of the model *)

MaxArticles == 3      \* longest generated input list
MaxPer == 2           \* largest generated per_category
MaxTotal == 3         \* largest generated total
MaxTopN == 1          \* largest generated top_n besides the default
MaxMarks == 3         \* mark_seen calls in one behaviour
MaxRestarts == 1      \* process restarts in one behaviour
TitleWindow == 2      \* titles kept in memory (the code keeps 10000)
SavedTitles == 1      \* titles written to the file (the code writes 5000)
MaxGroupInput == 3    \* longest list handed to the grouper
MaxPerGroup == 2      \* largest generated max_per_group
MaxEmbeddings == 2    \* max_embeddings (1000 by default)

-----------------------------------------------------------------------------
(* Generic helpers *)

Min(a, b) == IF a < b THEN a ELSE b
Max(a, b) == IF a > b THEN a ELSE b

None == "<None>"      \* Python None for Optional[str] fields

\* b ** e for a natural exponent
RECURSIVE Pow(_, _)
Pow(b, e) == IF e = 0 THEN 1 ELSE b * Pow(b, e - 1)

\* a call that has neither returned nor raised
NoResult == [kind |-> "none"]
Returned(v) == [kind |-> "return", value |-> v]
Raised(e) == [kind |-> "raise", exc |-> e]

\* Components that did not start: the values their variables keep.
IssueIdle ==
    /\ gh_client = FALSE
    /\ gh_dry_run = FALSE
    /\ gh_repo_name = None
    /\ gh_repo = None
    /\ gh_pc = "idle"
    /\ gh_attempt = 0
    /\ gh_trace = <<>>
    /\ gh_result = NoResult

NoEnv == [AI_RETRIES |-> None, AI_BACKOFF |-> None]

RetryIdle ==
    /\ wr_retries = 0
    /\ wr_backoff = <<1, 1>>
    /\ wr_env = NoEnv
    /\ wr_optimized = FALSE
    /\ wr_pc = "idle"
    /\ wr_attempt = 0
    /\ wr_last_exc = None
    /\ wr_trace = <<>>
    /\ wr_result = NoResult

\* base_dir/<month>.json does not exist
AbsentArchive == [kind |-> "absent", month |-> None, count |-> 0, articles |-> <<>>]

ArchiveIdle ==
    /\ ar_file = AbsentArchive
    /\ ar_prev_file = AbsentArchive
    /\ ar_last_batch = <<>>
    /\ ar_repeated = FALSE
    /\ ar_live = {}
    /\ ar_loaded = <<>>
    /\ ar_pc = "idle"

\* an Optional[int] limit: None, or an integer
NoLimit == [given |-> FALSE, n |-> 0]
Limit(n) == [given |-> TRUE, n |-> n]

FetchIdle ==
    /\ fa_sources = <<>>
    /\ fa_per_source = NoLimit
    /\ fa_max_total = NoLimit
    /\ fa_futures = <<>>
    /\ fa_collected = <<>>
    /\ fa_results = <<>>
    /\ fa_pc = "idle"
    /\ fa_return = NoResult

\* no Article is being processed
NoArt == [title |-> <<>>, url |-> "", source |-> "", raw_text |-> <<>>, published_date |-> None, category |-> None, summary |-> None, confidence_score |-> [kind |-> "none", milli |-> 0]]

RunIdle ==
    /\ run_dry_run = FALSE
    /\ run_fast_dry = FALSE
    /\ run_token = FALSE
    /\ run_backend_ok = FALSE
    /\ run_max_total = NoLimit
    /\ run_fetched = <<>>
    /\ run_i = 0
    /\ run_art = NoArt
    /\ run_answer = NoResult
    /\ run_prior_titles = <<>>
    /\ run_marked = {}
    /\ run_issues = <<>>
    /\ run_processed = 0
    /\ run_pc = "idle"
    /\ run_error = None

FilterIdle ==
    /\ fh_articles = <<>>
    /\ fh_min_score = 0
    /\ fh_top_n = NoLimit
    /\ fh_result = <<>>
    /\ fh_pc = "idle"

PipeIdle ==
    /\ pl_articles = <<>>
    /\ pl_dry_run = FALSE
    /\ pl_token = FALSE
    /\ pl_groups = <<>>
    /\ pl_payloads = <<>>
    /\ pl_results = <<>>
    /\ pl_records = <<>>
    /\ pl_history = <<>>
    /\ pl_tracker = <<>>
    /\ pl_runs = 0
    /\ pl_pc = "idle"
    /\ pl_return = NoResult

RestIdle == IssueIdle /\ RetryIdle /\ ArchiveIdle /\ FetchIdle /\ RunIdle /\ FilterIdle /\ PipeIdle

\* Python's seq[:n], for any integer n.
SliceTo(s, n) ==
    IF n >= 0 THEN SubSeq(s, 1, Min(n, Len(s)))
    ELSE SubSeq(s, 1, Max(0, Len(s) + n))

\* Python's seq[-n:] for n > 0.
SliceLast(s, n) == SubSeq(s, Max(1, Len(s) - n + 1), Len(s))

RECURSIVE SumLens(_, _, _)
SumLens(f, keys, i) ==
    IF i > Len(keys) THEN 0 ELSE Len(f[keys[i]]) + SumLens(f, keys, i + 1)

\* str.isspace() on one code point (ASCII whitespace, NEL, NBSP).
IsSpace(c) == c \in {9, 10, 11, 12, 13, 28, 29, 30, 31, 32, 133, 160}

\* str.lower() on ASCII code points.
LowerChar(c) == IF c >= 65 /\ c <= 90 THEN c + 32 ELSE c
Lower(s) == [i \in 1..Len(s) |-> LowerChar(s[i])] @@ <<>>

\* Python's str < str: lexicographic by code point.
StrLess(a, b) ==
    \E i \in 1..(Min(Len(a), Len(b)) + 1) :
        /\ \A j \in 1..(i - 1) : a[j] = b[j]
        /\ \/ (i > Len(a) /\ i <= Len(b))
           \/ (i <= Len(a) /\ i <= Len(b) /\ a[i] < b[i])

\* len(title.split()): number of maximal runs of non-whitespace.
WordCount(s) ==
    Cardinality({i \in 1..Len(s) :
        ~IsSpace(s[i]) /\ (i = 1 \/ IsSpace(s[i - 1]))})

-----------------------------------------------------------------------------
(* Article (models/article.py) *)

NoDate == [kind |-> "none", days |-> 0]
BadDate == [kind |-> "invalid", days |-> 0]
Aged(d) == [kind |-> "iso", days |-> d]

Article(t, u, s, x, d, c) ==
    [title |-> t, url |-> u, source |-> s, raw_text |-> x,
     published_date |-> d, category |-> c]

-----------------------------------------------------------------------------
(* Scorer (analysis/prioritize.py).  Factors are in percent.               *)

_source_authority(source_name) ==
    CASE source_name = "ThoughtWorks Technology Radar" -> 100
      [] source_name = "Martin Fowler Blog" -> 90
      [] source_name = "DORA DevOps Blog" -> 85
      [] OTHER -> 60

\* 400 * horizon_days * recency.  published_date carries the age in whole
\* days at the (fixed) clock of the run.
_recency_boost(published, horizon_days) ==
    IF published.kind # "iso" THEN 200 * horizon_days
    ELSE LET age_days == Max(0, published.days)
         IN IF age_days >= horizon_days THEN 80 * horizon_days
            ELSE 400 * horizon_days - 320 * age_days

_novelty_boost(title) == Min(100, 50 + 5 * WordCount(title))

_category_balance_weight(category) ==
    IF category = None \/ category = "" THEN 60
    ELSE CASE category = "Agile" -> 90
           [] category = "DevOps" -> 95
           [] category = "Architecture/Infra" -> 100
           [] category = "Leadership" -> 90
           [] OTHER -> 80

\* score * 1000 * horizon_days
ScoreOf(art, horizon_days) ==
    _recency_boost(art.published_date, horizon_days)
    + 3 * horizon_days * _source_authority(art.source)
    + 2 * horizon_days * _novelty_boost(art.title)
    + horizon_days * _category_balance_weight(art.category)

\* PrioritizedItem; id stands for the identity of the Python object (the
\* position of the article in the input).  The rationale string is a
\* formatted copy of the factors and is left out.
PrioritizedItem(art, i, horizon_days) ==
    [article |-> art, score |-> ScoreOf(art, horizon_days), id |-> i]

\* key(x) > key(y) for key = (score, title.lower())
KeyGreater(x, y) ==
    \/ x.score > y.score
    \/ x.score = y.score /\ StrLess(Lower(y.article.title), Lower(x.article.title))

\* list.sort(key=..., reverse=True): stable, descending by key.  An item
\* comes after every item with a greater key and after the earlier items
\* with an equal key.
SortDesc(s) ==
    LET n == Len(s)
        before(j, i) ==
            \/ KeyGreater(s[j], s[i])
            \/ (~KeyGreater(s[i], s[j]) /\ j < i)
        pos == [i \in 1..n |-> 1 + Cardinality({j \in 1..n : before(j, i)})]
                   @@ <<>>
    IN [p \in 1..n |-> s[CHOOSE i \in 1..n : pos[i] = p]] @@ <<>>

ScoreAll(arts, horizon_days) ==
    [i \in 1..Len(arts) |-> PrioritizedItem(arts[i], i, horizon_days)]

prioritize_articles(arts, horizon_weeks, topn) ==
    LET horizon_days == Max(7, horizon_weeks * 7)
        items == ScoreAll(arts, horizon_days)
    IN SliceTo(SortDesc(items), topn)

-----------------------------------------------------------------------------
(* Category bucketer (analysis/category_selector.py) *)

CATEGORIES == <<"Agile", "DevOps", "Architecture/Infra", "Leadership">>
CategorySet == {CATEGORIES[i] : i \in 1..Len(CATEGORIES)}

DEFAULT_HORIZON_WEEKS == 4
SCORE_AND_BUCKET_TOP_N == 2000
PRIORITIZE_TOP_N == 10

\* it.article.category or "Uncategorized"
BucketKey(it) ==
    IF it.article.category = None \/ it.article.category = ""
    THEN "Uncategorized" ELSE it.article.category

\* The defaultdict(list) of score_and_bucket: a key exists once an item was
\* appended under it.
score_and_bucket(arts, horizon_weeks, topn) ==
    LET scored == prioritize_articles(arts, horizon_weeks, topn)
        keys == {BucketKey(scored[i]) : i \in 1..Len(scored)}
    IN [k \in keys |-> SelectSeq(scored, LAMBDA it : BucketKey(it) = k)]

\* dict.get(key, [])
GetOrEmpty(d, k) == IF k \in DOMAIN d THEN d[k] ELSE <<>>

\* Mutant: the slice takes one item too many.
InitialSelectionOffByOne(buckets, per) ==
    [c \in CategorySet |-> SliceTo(GetOrEmpty(buckets, c), per + 1)]

\* for cat in CATEGORIES: selected[cat] = buckets.get(cat, [])[:per_category]
InitialSelection(buckets, per) ==
    [c \in CategorySet |-> SliceTo(GetOrEmpty(buckets, c), per)]

-----------------------------------------------------------------------------
(* Quota redistributor (analysis/quota_redistributor.py) *)

Ids(s) == {s[i].id : i \in 1..Len(s)}

\* Mutant: the tail keeps the items that are already selected.
RECURSIVE TailFromKeepSelected(_, _, _)
TailFromKeepSelected(buckets, result, i) ==
    IF i > Len(CATEGORIES) THEN <<>>
    ELSE GetOrEmpty(buckets, CATEGORIES[i])
         \o TailFromKeepSelected(buckets, result, i + 1)

\* The unsorted tail: for cat in CATEGORIES, the items of buckets[cat] whose
\* identity is not among result[cat].
RECURSIVE TailFrom(_, _, _)
TailFrom(buckets, result, i) ==
    IF i > Len(CATEGORIES) THEN <<>>
    ELSE LET cat == CATEGORIES[i]
             already == Ids(result[cat])
         IN SelectSeq(GetOrEmpty(buckets, cat), LAMBDA it : it.id \notin already)
            \o TailFrom(buckets, result, i + 1)

\* global_tail after global_tail.sort(key=(score, title.lower()), reverse=True)
SortedTail(buckets, result) == SortDesc(TailFrom(buckets, result, 1))

\* Mutant: the fill loop without the per-category cap test.
RECURSIVE FillSlotsNoCap(_, _, _, _, _)
FillSlotsNoCap(result, tail, i, needed, limit) ==
    IF i > Len(tail) \/ needed <= 0 THEN result
    ELSE LET it == tail[i]
             cat == BucketKey(it)
         IN IF cat \notin DOMAIN result
            THEN FillSlotsNoCap(result, tail, i + 1, needed, limit)
            ELSE FillSlotsNoCap([result EXCEPT ![cat] = Append(@, it)],
                                tail, i + 1, needed - 1, limit)

\* The fill loop over global_tail.
RECURSIVE FillSlots(_, _, _, _, _)
FillSlots(result, tail, i, needed, limit) ==
    IF i > Len(tail) \/ needed <= 0 THEN result
    ELSE LET it == tail[i]
             cat == BucketKey(it)
         IN IF cat \notin DOMAIN result
            THEN FillSlots(result, tail, i + 1, needed, limit)
            ELSE IF Len(result[cat]) >= limit
            THEN FillSlots(result, tail, i + 1, needed, limit)
            ELSE FillSlots([result EXCEPT ![cat] = Append(@, it)],
                           tail, i + 1, needed - 1, limit)

\* Mutant: current_total is taken before the selection is copied (always 0).
redistribute_shortfalls_stale_total(buckets, sel, target_total, per_category_limit) ==
    LET result == [c \in CategorySet |-> GetOrEmpty(sel, c)]
        current_total == 0
    IN IF current_total >= target_total THEN result
       ELSE FillSlots(result, SortedTail(buckets, result), 1,
                      target_total - current_total, per_category_limit)

redistribute_shortfalls(buckets, sel, target_total, per_category_limit) ==
    LET result == [c \in CategorySet |-> GetOrEmpty(sel, c)]
        current_total == SumLens(result, CATEGORIES, 1)
    IN IF current_total >= target_total THEN result
       ELSE FillSlots(result, SortedTail(buckets, result), 1,
                      target_total - current_total, per_category_limit)

select_with_redistribution(arts, per, tot, horizon_weeks) ==
    LET buckets == score_and_bucket(arts, horizon_weeks, SCORE_AND_BUCKET_TOP_N)
    IN redistribute_shortfalls(buckets, InitialSelection(buckets, per), tot, per)

-----------------------------------------------------------------------------
(* Text normalizer (processors/normalize.py) *)

\* text.translate(_PUNCT_TRANSLATION)
PunctTranslate(c) ==
    CASE c \in {8216, 8217} -> 39
      [] c \in {8220, 8221} -> 34
      [] c \in {8211, 8212} -> 45
      [] c = 160 -> 32
      [] OTHER -> c

\* _control_chars_re: [\u0000-\u0008\u000B\u000C\u000E-\u001F\u007F]
IsControl(c) ==
    (c >= 0 /\ c <= 8) \/ c = 11 \/ c = 12 \/ (c >= 14 /\ c <= 31) \/ c = 127

\* text.lstrip("\ufeff")
RECURSIVE StripBom(_)
StripBom(s) ==
    IF s # <<>> /\ s[1] = 65279 THEN StripBom(Tail(s)) ELSE s

\* _whitespace_re.sub(" ", text).strip(): every run of whitespace becomes
\* one space, leading and trailing whitespace goes.
CollapseAndStrip(s) ==
    LET keep(i) ==
            \/ ~IsSpace(s[i])
            \/ /\ i < Len(s)
               /\ ~IsSpace(s[i + 1])
               /\ \E j \in 1..(i - 1) : ~IsSpace(s[j])
        idx == SelectSeq([i \in 1..Len(s) |-> i], keep)
    IN [k \in 1..Len(idx) |-> IF IsSpace(s[idx[k]]) THEN 32 ELSE s[idx[k]]]
       @@ <<>>

\* NFKC leaves the code points of the model's alphabet (ASCII) unchanged;
\* the non-breaking space is already replaced by the translation.
normalize_plain_text(text) ==
    IF text = <<>> THEN <<>>
    ELSE LET t1 == StripBom(text)
             t2 == [i \in 1..Len(t1) |-> PunctTranslate(t1[i])] @@ <<>>
             t3 == [i \in 1..Len(t2) |-> IF IsControl(t2[i]) THEN 32 ELSE t2[i]]
                   @@ <<>>
         IN CollapseAndStrip(t3)

\* str.strip()
RECURSIVE Strip(_)
Strip(s) ==
    IF s = <<>> THEN s
    ELSE IF IsSpace(s[1]) THEN Strip(Tail(s))
    ELSE IF IsSpace(s[Len(s)]) THEN Strip(SubSeq(s, 1, Len(s) - 1))
    ELSE s

-----------------------------------------------------------------------------
(* Duplicate detector and Seen-Store (processors/dedup.py) *)

TITLE_THRESHOLD == 85        \* title_threshold default, in percent
SEMANTIC_THRESHOLD == 85     \* semantic_threshold default, in percent
EMBED_TEXT_LIMIT == 8000     \* article.raw_text[:8000]

NoVec == <<>>                \* _embed returned None

\* SHA-256 of t_norm.lower() + "\n\n" + x_norm.lower().  The two parts hold
\* no newline after normalization, so the concatenation determines the
\* pair; the digest is taken to be collision-free.
content_hash(title, text) ==
    <<Lower(normalize_plain_text(title)), Lower(normalize_plain_text(text))>>

\* Number of characters in the matching blocks that
\* difflib.SequenceMatcher(None, a, b) finds: the longest common block
\* (the earliest in a, then the earliest in b), then the same to its left
\* and to its right.
RECURSIVE MatchingChars(_, _)
MatchingChars(a, b) ==
    LET blocks == {t \in (1..Len(a)) \X (1..Len(b)) \X (1..Min(Len(a), Len(b))) :
                      /\ t[1] + t[3] - 1 <= Len(a)
                      /\ t[2] + t[3] - 1 <= Len(b)
                      /\ SubSeq(a, t[1], t[1] + t[3] - 1)
                           = SubSeq(b, t[2], t[2] + t[3] - 1)}
    IN IF a = <<>> \/ b = <<>> \/ blocks = {} THEN 0
       ELSE LET best == CHOOSE t \in blocks : \A u \in blocks :
                            \/ t[3] > u[3]
                            \/ t[3] = u[3] /\ t[1] < u[1]
                            \/ t[3] = u[3] /\ t[1] = u[1] /\ t[2] <= u[2]
            IN best[3]
               + MatchingChars(SubSeq(a, 1, best[1] - 1),
                               SubSeq(b, 1, best[2] - 1))
               + MatchingChars(SubSeq(a, best[1] + best[3], Len(a)),
                               SubSeq(b, best[2] + best[3], Len(b)))

\* Mutant: the comparison with the threshold is strict.
TitlesSimilarStrict(a, b, pct) ==
    LET la == Lower(a)
        lb == Lower(b)
        T == Len(la) + Len(lb)
    IN IF T = 0 THEN 100 > pct
       ELSE 200 * MatchingChars(la, lb) > pct * T

\* similar_titles(a, b) >= pct / 100, for ratio = 2 * M / T (1.0 if T = 0)
TitlesSimilar(a, b, pct) ==
    LET la == Lower(a)
        lb == Lower(b)
        T == Len(la) + Len(lb)
    IN IF T = 0 THEN 100 >= pct
       ELSE 200 * MatchingChars(la, lb) >= pct * T

\* The embedding backend is an external collaborator: the vector of a
\* text is determined by the text, equal texts give cosine 1.0, other
\* texts 0.1.
Embedding(text) == text
Cosine(v, w) == IF v = w THEN 100 ELSE 10

\* _ensure_model followed by the rest of _embed.  load_ok and encode_ok are
\* what the backend does when it is asked to load the model and to encode.
_embed(text, sem, loaded, np, load_ok, encode_ok) ==
    LET try_load == sem /\ np /\ ~loaded
        sem1 == IF try_load /\ ~load_ok THEN FALSE ELSE sem
        loaded1 == IF try_load THEN load_ok ELSE loaded
    IN [enable_semantic |-> sem1,
        model_loaded |-> loaded1,
        raised |-> loaded1 /\ ~encode_ok,
        vec |-> IF loaded1 /\ encode_ok /\ np THEN Embedding(text) ELSE NoVec]

\* _max_cosine(vec)
_max_cosine(vec, embs, np) ==
    IF ~np \/ embs = <<>> THEN 0
    ELSE LET sims == {Cosine(embs[i], vec) : i \in 1..Len(embs)}
         IN CHOOSE m \in sims : \A x \in sims : m >= x

HashSeen(article, hashes) ==
    content_hash(article.title, article.raw_text) \in hashes

\* for t in list(prior_titles) + self._titles: similar_titles(...) >= threshold
TitleSeen(article, prior_titles, ts, pct) ==
    LET all == prior_titles \o ts
    IN \E i \in 1..Len(all) : TitlesSimilar(article.title, all[i], pct)

\* Mutant: the fuzzy title stage runs before the exact hash stage.
is_duplicate_title_first(article, prior_titles, hashes, ts, embs, sem, loaded, np, cfg, load_ok, encode_ok) ==
    LET same == [enable_semantic |-> sem, model_loaded |-> loaded,
                 raised |-> FALSE]
    IN IF TitleSeen(article, prior_titles, ts, cfg.title_threshold)
       THEN same @@ [dup |-> TRUE, reason |-> "title", stages |-> <<"title">>]
       ELSE IF HashSeen(article, hashes)
       THEN same @@ [dup |-> TRUE, reason |-> "hash",
                     stages |-> <<"title", "hash">>]
       ELSE same @@ [dup |-> FALSE, reason |-> None,
                     stages |-> <<"title", "hash">>]

\* is_duplicate: the returned pair, the stages it evaluated in order, and
\* what the call left in enable_semantic and _model.
is_duplicate(article, prior_titles, hashes, ts, embs, sem, loaded, np, cfg, load_ok, encode_ok) ==
    LET same == [enable_semantic |-> sem, model_loaded |-> loaded,
                 raised |-> FALSE]
    IN IF HashSeen(article, hashes)
       THEN same @@ [dup |-> TRUE, reason |-> "hash", stages |-> <<"hash">>]
       ELSE IF TitleSeen(article, prior_titles, ts, cfg.title_threshold)
       THEN same @@ [dup |-> TRUE, reason |-> "title",
                     stages |-> <<"hash", "title">>]
       ELSE IF sem /\ np /\ article.raw_text # <<>>
       THEN LET e == _embed(SliceTo(article.raw_text, EMBED_TEXT_LIMIT),
                            sem, loaded, np, load_ok, encode_ok)
                hit == /\ ~e.raised
                       /\ e.vec # NoVec
                       /\ embs # <<>>
                       /\ _max_cosine(e.vec, embs, np) >= cfg.semantic_threshold
            IN [enable_semantic |-> e.enable_semantic,
                model_loaded |-> e.model_loaded,
                raised |-> e.raised,
                dup |-> hit,
                reason |-> IF hit THEN "semantic" ELSE None,
                stages |-> <<"hash", "title", "semantic">>]
       ELSE same @@ [dup |-> FALSE, reason |-> None,
                     stages |-> <<"hash", "title">>]

\* Mutant: mark_seen leaves the hash set alone.
HashesAfterMarkForgotten(article, hashes) == hashes

\* self._seen_hashes.add(content_hash)
HashesAfterMark(article, hashes) ==
    hashes \cup {content_hash(article.title, article.raw_text)}

\* if article.title: append title.strip(), keep the last TitleWindow titles
TitlesAfterMark(article, ts) ==
    IF article.title = <<>> THEN ts
    ELSE LET ts1 == Append(ts, Strip(article.title))
         IN IF Len(ts1) > TitleWindow THEN SliceLast(ts1, TitleWindow) ELSE ts1

\* Mutant: _save writes the titles only.
SavePayloadNoHashes(hashes, ts) ==
    [kind |-> "json", hashes |-> {}, titles |-> SliceLast(ts, SavedTitles)]

\* _save: {"hashes": sorted(self._seen_hashes), "titles": self._titles[-N:]}.
\* The sorted list of hashes is represented by their set.
SavePayload(hashes, ts) ==
    [kind |-> "json", hashes |-> hashes, titles |-> SliceLast(ts, SavedTitles)]

MissingFile == [kind |-> "missing", hashes |-> {}, titles |-> <<>>]
CorruptFile == [kind |-> "corrupt", hashes |-> {}, titles |-> <<>>]
\* A JSON object whose "hashes" is a list of strings and whose "titles" is
\* not iterable: set(...) succeeds, list(...) raises.
PartialFile ==
    [kind |-> "bad_titles", hashes |-> {<<<<97>>, <<120>>>>}, titles |-> <<>>]

\* Mutant: the except clause keeps the hashes that were already assigned.
LoadedHashesPartial(file) ==
    IF file.kind \in {"json", "bad_titles"} THEN file.hashes ELSE {}

\* _load: what the file gives to _seen_hashes and _titles.
LoadedHashes(file) == IF file.kind = "json" THEN file.hashes ELSE {}
LoadedTitles(file) == IF file.kind = "json" THEN file.titles ELSE <<>>

-----------------------------------------------------------------------------
(* Article grouper (analysis/article_grouper.py) *)

MIN_LEN == 4                   \* _keyword_signature min_len
SIGNATURE_PREFIX == 3          \* sig[:3]
DEFAULT_MAX_PER_GROUP == 4     \* group_related_articles max_per_group
PUNCTUATION == {46, 44, 58, 59, 33, 63}     \* ".,:;!?"

\* str.split(): the maximal runs of non-whitespace, in order.
Words(s) ==
    LET starts == SelectSeq([i \in 1..Len(s) |-> i],
                     LAMBDA i : ~IsSpace(s[i]) /\ (i = 1 \/ IsSpace(s[i - 1])))
        endOf(b) == CHOOSE e \in b..Len(s) :
                       /\ \A j \in b..e : ~IsSpace(s[j])
                       /\ (e = Len(s) \/ IsSpace(s[e + 1]))
    IN [k \in 1..Len(starts) |-> SubSeq(s, starts[k], endOf(starts[k]))]
       @@ <<>>

\* " ".join(words)
RECURSIVE JoinSpace(_)
JoinSpace(ws) ==
    IF ws = <<>> THEN <<>>
    ELSE IF Len(ws) = 1 THEN ws[1]
    ELSE ws[1] \o <<32>> \o JoinSpace(Tail(ws))

\* _norm(s) = " ".join((s or "").lower().split())
_norm(s) == JoinSpace(Words(Lower(s)))

\* str.strip(chars)
RECURSIVE StripChars(_, _)
StripChars(w, chars) ==
    IF w = <<>> THEN w
    ELSE IF w[1] \in chars THEN StripChars(Tail(w), chars)
    ELSE IF w[Len(w)] \in chars THEN StripChars(SubSeq(w, 1, Len(w) - 1), chars)
    ELSE w

\* str.strip() on the category names of the model: "Agile " is the one
\* name with surrounding whitespace.
StripCategory(c) == IF c = "Agile " THEN "Agile" ELSE c

\* _category_key(article)
_category_key(article) ==
    StripCategory(IF article.category = None \/ article.category = ""
                  THEN "Uncategorized" ELSE article.category)

\* _keyword_signature(title)
_keyword_signature(title) ==
    LET split == Words(title)
        words == [k \in 1..Len(split) |-> StripChars(split[k], PUNCTUATION)]
                 @@ <<>>
        long == SelectSeq(words, LAMBDA w : Len(w) >= MIN_LEN)
        keywords == [k \in 1..Len(long) |-> Lower(long[k])] @@ <<>>
        first == SelectSeq([i \in 1..Len(keywords) |-> i],
                     LAMBDA i : \A j \in 1..(i - 1) : keywords[j] # keywords[i])
    IN [k \in 1..Len(first) |-> keywords[first[k]]] @@ <<>>

\* key = (cat, sig[:3])
TopicKey(article) ==
    <<_category_key(article),
      SliceTo(_keyword_signature(article.title), SIGNATURE_PREFIX)>>

\* An Article object of the input: the article and its position, which
\* stands for the identity of the object.
GroupItem(arts, i) == [article |-> arts[i], id |-> i]

\* Mutant: the trailing partial chunk is dropped.
RECURSIVE ChunksDropRest(_, _, _, _, _)
ChunksDropRest(items, i, chunk, out, max) ==
    IF i > Len(items) THEN out
    ELSE LET c1 == Append(chunk, items[i])
         IN IF Len(c1) >= max
            THEN ChunksDropRest(items, i + 1, <<>>, Append(out, c1), max)
            ELSE ChunksDropRest(items, i + 1, c1, out, max)

\* The chunk loop over the items of one bucket; out is `groups`.
RECURSIVE Chunks(_, _, _, _, _)
Chunks(items, i, chunk, out, max) ==
    IF i > Len(items)
    THEN IF chunk # <<>> THEN Append(out, chunk) ELSE out
    ELSE LET c1 == Append(chunk, items[i])
         IN IF Len(c1) >= max
            THEN Chunks(items, i + 1, <<>>, Append(out, c1), max)
            ELSE Chunks(items, i + 1, c1, out, max)

\* for (_cat, _sig), items in buckets.items(): the buckets in the order in
\* which their keys first occur.
RECURSIVE AllChunks(_, _, _, _)
AllChunks(buckets, k, out, max) ==
    IF k > Len(buckets) THEN out
    ELSE AllChunks(buckets, k + 1, Chunks(buckets[k], 1, <<>>, out, max), max)

\* key=lambda g: (-len(g), _norm(g[0].title)), compared as tuples
GroupKeyLess(g, h) ==
    \/ Len(g) > Len(h)
    \/ /\ Len(g) = Len(h)
       /\ StrLess(_norm(g[1].article.title), _norm(h[1].article.title))

\* Mutant: the groups are sorted by the first title only.
SortGroupsByTitleOnly(gs) ==
    LET n == Len(gs)
        less(j, i) == StrLess(_norm(gs[j][1].article.title),
                              _norm(gs[i][1].article.title))
        before(j, i) == less(j, i) \/ (~less(i, j) /\ j < i)
        pos == [i \in 1..n |-> 1 + Cardinality({j \in 1..n : before(j, i)})]
               @@ <<>>
    IN [p \in 1..n |-> gs[CHOOSE i \in 1..n : pos[i] = p]] @@ <<>>

\* groups.sort(key=...): ascending and stable.
SortGroups(gs) ==
    LET n == Len(gs)
        before(j, i) == \/ GroupKeyLess(gs[j], gs[i])
                        \/ (~GroupKeyLess(gs[i], gs[j]) /\ j < i)
        pos == [i \in 1..n |-> 1 + Cardinality({j \in 1..n : before(j, i)})]
               @@ <<>>
    IN [p \in 1..n |-> gs[CHOOSE i \in 1..n : pos[i] = p]] @@ <<>>

group_related_articles(arts, max) ==
    LET n == Len(arts)
        key == [i \in 1..n |-> TopicKey(arts[i])] @@ <<>>
        items == [i \in 1..n |-> GroupItem(arts, i)] @@ <<>>
        first == SelectSeq([i \in 1..n |-> i],
                     LAMBDA i : \A j \in 1..(i - 1) : key[j] # key[i])
        buckets == [k \in 1..Len(first) |->
                       SelectSeq(items, LAMBDA it : key[it.id] = key[first[k]])]
                   @@ <<>>
    IN SortGroups(AllChunks(buckets, 1, <<>>, max))

-----------------------------------------------------------------------------
(* Inputs of the ranking / selection component *)

Feed(t, c) == Article(t, "u", "Example Feed", <<>>, NoDate, c)
SelArticles ==
    {Feed(<<97>>, c) : c \in {"Agile", "Leadership", None, "Other"}}  \* "a"
    \cup {Feed(<<66>>, "Agile"),                                   \* "B"
          Article(<<97, 32, 98>>, "u", "Martin Fowler Blog", <<>>, \* "a b"
                  Aged(3), "DevOps")}

\* The worked scenarios of the quota redistributor: 20 candidates in every
\* category, except 5 in the scarce one (if any).
ScenarioCount(cat, scarce) == IF cat = scarce THEN 5 ELSE 20

ScenarioOf(cat, scarce) ==
    [k \in 1..ScenarioCount(cat, scarce) |->
        Article(<<96 + k>>, "u", "Example Feed", <<>>, NoDate, cat)]

Scenario(scarce) ==
    ScenarioOf(CATEGORIES[1], scarce) \o ScenarioOf(CATEGORIES[2], scarce)
    \o ScenarioOf(CATEGORIES[3], scarce) \o ScenarioOf(CATEGORIES[4], scarce)

IsScenario(arts) == Len(arts) > MaxArticles

DEFAULT_PER_CATEGORY == 16
DEFAULT_TOTAL == 64

PerChoices(arts) ==
    IF IsScenario(arts) THEN {DEFAULT_PER_CATEGORY} ELSE 0..MaxPer
TotalChoices(arts) ==
    IF IsScenario(arts) THEN {DEFAULT_TOTAL} ELSE 0..MaxTotal
TopNChoices == (0..MaxTopN) \cup {PRIORITIZE_TOP_N}

Reversed(s) == [k \in 1..Len(s) |-> s[Len(s) + 1 - k]]

NoSelection == [c \in CategorySet |-> <<>>]

SelInit ==
    /\ articles = <<>>
    /\ pc = "input"
    /\ per_category = 0
    /\ total = 0
    /\ selected = NoSelection
    /\ final = NoSelection
    /\ global_tail = <<>>
    /\ top_n = 0
    /\ ranked = <<>>
    /\ ranked2 = <<>>

\* The caller builds the list of articles.
AddArticle ==
    /\ pc = "input"
    /\ Len(articles) < MaxArticles
    /\ \E a \in SelArticles : articles' = Append(articles, a)
    /\ UNCHANGED <<pc, per_category, total, selected, final, global_tail,
                   top_n, ranked, ranked2>>
    /\ UNCHANGED NotSel

LoadScenario ==
    /\ pc = "input"
    /\ articles = <<>>
    /\ \E scarce \in CategorySet \cup {None} : articles' = Scenario(scarce)
    /\ UNCHANGED <<pc, per_category, total, selected, final, global_tail,
                   top_n, ranked, ranked2>>
    /\ UNCHANGED NotSel

\* What a call of redistribute_shortfalls leaves behind.
Redistributed(buckets, sel, tot, limit) ==
    /\ selected' = sel
    /\ final' = redistribute_shortfalls(buckets, sel, tot, limit)
    /\ global_tail' =
           IF SumLens(sel, CATEGORIES, 1) >= tot THEN <<>>
           ELSE SortedTail(buckets, sel)
    /\ per_category' = limit
    /\ total' = tot

\* select_with_redistribution(articles, per_category=per, total=tot)
SelectWithRedistribution ==
    /\ pc = "input"
    /\ \E per \in PerChoices(articles), tot \in TotalChoices(articles) :
          LET buckets == score_and_bucket(articles, DEFAULT_HORIZON_WEEKS,
                                          SCORE_AND_BUCKET_TOP_N)
          IN Redistributed(buckets, InitialSelection(buckets, per), tot, per)
    /\ pc' = "selected"
    /\ UNCHANGED <<articles, top_n, ranked, ranked2>>
    /\ UNCHANGED NotSel

\* redistribute_shortfalls called on its own, with an initial selection of
\* the top k <= per_category_limit items of every category.
RedistributeShortfalls ==
    /\ pc = "input"
    /\ ~IsScenario(articles)
    /\ \E limit \in PerChoices(articles), tot \in TotalChoices(articles) :
       \E k \in 0..(limit - 1) :
          LET buckets == score_and_bucket(articles, DEFAULT_HORIZON_WEEKS,
                                          SCORE_AND_BUCKET_TOP_N)
          IN Redistributed(buckets, InitialSelection(buckets, k), tot, limit)
    /\ pc' = "redistributed"
    /\ UNCHANGED <<articles, top_n, ranked, ranked2>>
    /\ UNCHANGED NotSel

\* prioritize_articles(articles, top_n=n)
PrioritizeArticles ==
    /\ pc = "input"
    /\ ~IsScenario(articles)
    /\ \E n \in TopNChoices :
          /\ top_n' = n
          /\ ranked' = prioritize_articles(articles, DEFAULT_HORIZON_WEEKS, n)
    /\ pc' = "ranked"
    /\ UNCHANGED <<articles, per_category, total, selected, final,
                   global_tail, ranked2>>
    /\ UNCHANGED NotSel

\* A second run of prioritize_articles on the same articles, supplied in
\* the reverse order.
PrioritizeReordered ==
    /\ pc = "ranked"
    /\ ranked2' = prioritize_articles(Reversed(articles),
                                      DEFAULT_HORIZON_WEEKS, top_n)
    /\ pc' = "reranked"
    /\ UNCHANGED <<articles, per_category, total, selected, final,
                   global_tail, top_n, ranked>>
    /\ UNCHANGED NotSel

SelNext ==
    \/ AddArticle
    \/ LoadScenario
    \/ SelectWithRedistribution
    \/ RedistributeShortfalls
    \/ PrioritizeArticles
    \/ PrioritizeReordered

-----------------------------------------------------------------------------
(* Properties of the quota redistributor and the ranking *)

Count(f) == SumLens(f, CATEGORIES, 1)
HorizonDays == Max(7, DEFAULT_HORIZON_WEEKS * 7)

\* The candidates of a category, counted on the input itself.
CandIds(c) == {i \in 1..Len(articles) : articles[i].category = c}
NumCand(c) == Cardinality(CandIds(c))
NumCandAll == Cardinality({i \in 1..Len(articles) : articles[i].category \in CategorySet})

RECURSIVE CappedFrom(_)
CappedFrom(i) ==
    IF i > Len(CATEGORIES) THEN 0
    ELSE Min(NumCand(CATEGORIES[i]), per_category) + CappedFrom(i + 1)
AvailCapped == CappedFrom(1)

SelectionDone == pc \in {"selected", "redistributed"}

\* C1: the number of items select_with_redistribution selects equals
\* min(total, A), A being the candidates counted with each category capped
\* at per_category.
C1_TotalIsMinOfTargetAndAvailable ==
    pc = "selected" => Count(final) = Min(total, AvailCapped)

ScarceScenario(scarce) ==
    /\ pc = "selected"
    /\ IsScenario(articles)
    /\ per_category = DEFAULT_PER_CATEGORY
    /\ total = DEFAULT_TOTAL
    /\ NumCand(scarce) = 5
    /\ \A c \in CategorySet \ {scarce} : NumCand(c) = 20

\* C3 as claimed: the initial selection is 53, redistribution pulls 11 more
\* within the cap, the final total is 64 and the scarce category stays at 5.
C3_ScenarioReaches64 ==
    \A scarce \in CategorySet :
        ScarceScenario(scarce) =>
            /\ Count(selected) = 53
            /\ Count(final) = 64
            /\ Len(final[scarce]) = 5
            /\ \A c \in CategorySet : Len(final[c]) <= 16

\* C3 as amended: the initial selection is 53; the overflow pool holds the
\* 12 items beyond the cap, all of categories already at the cap of 16, so
\* redistribution adds nothing: the final total is 53, the scarce category
\* stays at 5 and the others at 16.
C3_ScenarioStaysAt53 ==
    \A scarce \in CategorySet :
        ScarceScenario(scarce) =>
            /\ Count(selected) = 53
            /\ Len(global_tail) = 12
            /\ final = selected
            /\ Count(final) = 53
            /\ Len(final[scarce]) = 5
            /\ \A c \in CategorySet \ {scarce} : Len(final[c]) = 16

C3_Witness == \E scarce \in CategorySet : ScarceScenario(scarce)

\* C4: when the initial selection already totals at least target_total,
\* redistribute_shortfalls returns exactly the initial selection; four
\* categories of 20 candidates with limit 16 and target 64 give 16 each.
C4_NoRedistributionAtTarget ==
    /\ (SelectionDone /\ Count(selected) >= total) => final = selected
    /\ (/\ pc = "selected"
        /\ IsScenario(articles)
        /\ per_category = DEFAULT_PER_CATEGORY
        /\ total = DEFAULT_TOTAL
        /\ \A c \in CategorySet : NumCand(c) = 20)
       => \A c \in CategorySet :
             /\ Len(final[c]) = 16
             /\ Ids(final[c]) \subseteq CandIds(c)

\* C4 witness: a call of redistribute_shortfalls whose initial selection
\* is already at the target while candidates and free slots remain.
C4_Witness ==
    /\ pc = "redistributed"
    /\ Count(selected) >= total
    /\ Count(selected) > 0
    /\ \E c \in CategorySet :
          Len(selected[c]) < per_category /\ Len(selected[c]) < NumCand(c)

C4_WitnessScenario ==
    /\ pc = "selected"
    /\ IsScenario(articles)
    /\ \A c \in CategorySet : NumCand(c) = 20 /\ Len(final[c]) = 16

Genuine(s) ==
    /\ Cardinality(Ids(s)) = Len(s)
    /\ \A i \in 1..Len(s) :
          /\ s[i].id \in 1..Len(articles)
          /\ s[i].article = articles[s[i].id]

ScoreDescTitleAsc(s) ==
    \A i \in 1..(Len(s) - 1) :
        \/ s[i].score > s[i + 1].score
        \/ /\ s[i].score = s[i + 1].score
           /\ ~StrLess(Lower(s[i + 1].article.title), Lower(s[i].article.title))

\* C6: prioritize_articles returns the items by descending score, equal
\* scores by ascending case-folded title, and the overflow pool of
\* redistribute_shortfalls is sorted in the same order.
C6_RankedByScoreThenTitleAscending ==
    /\ pc \in {"ranked", "reranked"} => ScoreDescTitleAsc(ranked)
    /\ SelectionDone => ScoreDescTitleAsc(global_tail)

ArticlesOf(s) == [i \in 1..Len(s) |-> s[i].article]

\* C7: two runs of prioritize_articles over the same set of items, with a
\* fixed clock, return the same ordering whatever the order of supply.
C7_RankingIndependentOfInputOrder ==
    pc = "reranked" => ArticlesOf(ranked2) = ArticlesOf(ranked)

\* The bucket the claim assigns to a category.
ClaimedBucket(category) ==
    IF category \in CategorySet THEN category ELSE "Uncategorized"

\* C20: in the buckets score_and_bucket builds for the articles of the
\* call, every scored item is in exactly one bucket, that of its own
\* category if it is one of the four and "Uncategorized" otherwise, the
\* buckets keep the rank order, and there is no bucket under another key.
C20_BucketsByKnownCategory ==
    SelectionDone =>
       LET b == score_and_bucket(articles, DEFAULT_HORIZON_WEEKS,
                                 SCORE_AND_BUCKET_TOP_N)
           scored == prioritize_articles(articles, DEFAULT_HORIZON_WEEKS,
                                         SCORE_AND_BUCKET_TOP_N)
           places(it) == {<<k, j>> \in (DOMAIN b) \X (1..Len(scored)) :
                             j <= Len(b[k]) /\ b[k][j].id = it.id}
       IN /\ DOMAIN b \subseteq (CategorySet \cup {"Uncategorized"})
          /\ \A i \in 1..Len(scored) :
                /\ Cardinality(places(scored[i])) = 1
                /\ \A pl \in places(scored[i]) :
                      pl[1] = ClaimedBucket(scored[i].article.category)
          /\ \A k \in DOMAIN b : b[k] = SelectSeq(scored,
                LAMBDA it : \E j \in 1..Len(b[k]) : b[k][j].id = it.id)

-----------------------------------------------------------------------------
(* Article grouper: idle values used while another component runs *)

GroupIdle ==
    /\ group_input = <<>>
    /\ max_per_group = 0
    /\ groups = <<>>
    /\ gpc = "idle"

-----------------------------------------------------------------------------
(* The Deduplicator as a state machine *)

\* ("a","x"), ("A","x"): equal content hash; ("a",""): title only;
\* ("b","x"): text only.
DedupArticles ==
    {Article(t[1], "u", "Example Feed", t[2], NoDate, None) :
        t \in {<<<<97>>, <<120>>>>, <<<<65>>, <<>>>>, <<<<98>>, <<120>>>>}}
PriorChoices == {<<>>, <<<<98>>>>}               \* prior_titles: (), ("b",)

NoArticle == Article(<<>>, "", "", <<>>, NoDate, None)
\* The last call on the Deduplicator: what it was given, what held of the
\* seen state when it began (hash_seen, title_seen) and what it returned.
NoCall == [op |-> "none", article |-> NoArticle,
           hash_seen |-> FALSE, title_seen |-> FALSE,
           dup |-> FALSE, reason |-> None, stages |-> <<>>, raised |-> FALSE]

\* What the embedding backend may do when asked to load and to encode; it
\* is asked only with semantic matching enabled and numpy present.
BackendChoices(sem, np) ==
    IF sem /\ np THEN BOOLEAN \X BOOLEAN ELSE {<<TRUE, TRUE>>}

DefaultConfig(sem) ==
    [enable_semantic |-> sem,
     title_threshold |-> TITLE_THRESHOLD,
     semantic_threshold |-> SEMANTIC_THRESHOLD]

\* Deduplicator(): the constructor, with _load() on the store file.
Constructed(file) ==
    /\ seen_hashes = LoadedHashes(file)
    /\ titles = LoadedTitles(file)
    /\ embeddings = <<>>
    /\ model_loaded = FALSE
    /\ enable_semantic = config.enable_semantic

DedupInit ==
    /\ config \in {DefaultConfig(sem) : sem \in BOOLEAN}
    /\ np_available \in BOOLEAN
    /\ store_file \in {MissingFile, CorruptFile, PartialFile}
    /\ Constructed(store_file)
    /\ last_call = NoCall
    /\ marked_run = {}
    /\ saved_ever = {}
    /\ marks = 0
    /\ restarts = 0

\* Mutant: is_duplicate appends the inspected title to the title window.
IsDuplicateRecordsTitle ==
    /\ \E a \in DedupArticles, prior \in PriorChoices,
          backend \in BackendChoices(enable_semantic, np_available) :
          LET r == is_duplicate(a, prior, seen_hashes, titles, embeddings,
                                enable_semantic, model_loaded, np_available,
                                config, backend[1], backend[2])
          IN /\ titles' = Append(titles, a.title)
             /\ enable_semantic' = r.enable_semantic
             /\ model_loaded' = r.model_loaded
             /\ last_call' = [op |-> "is_duplicate", article |-> a,
                              hash_seen |-> HashSeen(a, seen_hashes),
                              title_seen |-> TitleSeen(a, prior, titles,
                                                       config.title_threshold),
                              dup |-> ~r.raised /\ r.dup,
                              reason |-> IF r.raised THEN None ELSE r.reason,
                              stages |-> r.stages, raised |-> r.raised]
    /\ UNCHANGED <<seen_hashes, embeddings, np_available, config,
                   store_file, marked_run, saved_ever, marks, restarts>>
    /\ UNCHANGED NotDedup

\* is_duplicate(article, prior_titles=prior)
IsDuplicate ==
    /\ \E a \in DedupArticles, prior \in PriorChoices,
          backend \in BackendChoices(enable_semantic, np_available) :
          LET r == is_duplicate(a, prior, seen_hashes, titles, embeddings,
                                enable_semantic, model_loaded, np_available,
                                config, backend[1], backend[2])
          IN /\ enable_semantic' = r.enable_semantic
             /\ model_loaded' = r.model_loaded
             /\ last_call' = [op |-> "is_duplicate", article |-> a,
                              hash_seen |-> HashSeen(a, seen_hashes),
                              title_seen |-> TitleSeen(a, prior, titles,
                                                       config.title_threshold),
                              dup |-> ~r.raised /\ r.dup,
                              reason |-> IF r.raised THEN None ELSE r.reason,
                              stages |-> r.stages, raised |-> r.raised]
    /\ UNCHANGED <<seen_hashes, titles, embeddings, np_available, config,
                   store_file, marked_run, saved_ever, marks, restarts>>
    /\ UNCHANGED NotDedup

\* mark_seen(article), on the article of the preceding call (the callers
\* inspect with is_duplicate, then commit).
MarkSeen ==
    /\ marks < MaxMarks
    /\ last_call.op \in {"is_duplicate", "mark_seen"}
    /\ \E backend \in BackendChoices(enable_semantic, np_available) :
          LET a == last_call.article
              embed == enable_semantic /\ a.raw_text # <<>>
              e == _embed(SliceTo(a.raw_text, EMBED_TEXT_LIMIT),
                          enable_semantic, model_loaded, np_available,
                          backend[1], backend[2])
              raised == embed /\ e.raised
              hashes1 == HashesAfterMark(a, seen_hashes)
              titles1 == TitlesAfterMark(a, titles)
              embs1 == Append(embeddings, e.vec)
          IN /\ seen_hashes' = hashes1
             /\ titles' = titles1
             /\ enable_semantic' = IF embed THEN e.enable_semantic
                                   ELSE enable_semantic
             /\ model_loaded' = IF embed THEN e.model_loaded ELSE model_loaded
             /\ embeddings' =
                   IF embed /\ ~raised /\ e.vec # NoVec
                   THEN IF Len(embs1) > MaxEmbeddings
                        THEN SliceLast(embs1, MaxEmbeddings) ELSE embs1
                   ELSE embeddings
             /\ store_file' = IF raised THEN store_file
                              ELSE SavePayload(hashes1, titles1)
             /\ saved_ever' = IF raised THEN saved_ever
                              ELSE saved_ever \cup {a}
             /\ marked_run' = marked_run \cup {a}
             /\ last_call' = [NoCall EXCEPT !.op = "mark_seen",
                                            !.article = a,
                                            !.raised = raised]
    /\ marks' = marks + 1
    /\ UNCHANGED <<np_available, config, restarts>>
    /\ UNCHANGED NotDedup

\* The process ends; a new process constructs a Deduplicator on the same
\* store file.
Restart ==
    /\ restarts < MaxRestarts
    /\ seen_hashes' = LoadedHashes(store_file)
    /\ titles' = LoadedTitles(store_file)
    /\ embeddings' = <<>>
    /\ model_loaded' = FALSE
    /\ enable_semantic' = config.enable_semantic
    /\ marked_run' = {}
    /\ last_call' = [NoCall EXCEPT !.op = "restart"]
    /\ restarts' = restarts + 1
    /\ UNCHANGED <<np_available, config, store_file, saved_ever, marks>>
    /\ UNCHANGED NotDedup

DedupNext ==
    \/ IsDuplicate
    \/ MarkSeen
    \/ Restart

SelIdle ==
    /\ articles = <<>>
    /\ pc = "idle"
    /\ per_category = 0
    /\ total = 0
    /\ selected = NoSelection
    /\ final = NoSelection
    /\ global_tail = <<>>
    /\ top_n = 0
    /\ ranked = <<>>
    /\ ranked2 = <<>>

DedupStart == DedupInit /\ SelIdle /\ GroupIdle /\ RestIdle

SpecDedup == DedupStart /\ [][DedupNext]_vars

-----------------------------------------------------------------------------
(* Properties of the duplicate detector and the Seen-Store *)

\* is_duplicate on the current state of the Deduplicator, for every value
\* of prior_titles and every behaviour of the embedding backend.
AlwaysDuplicate(a) ==
    \A prior \in PriorChoices,
       backend \in BackendChoices(enable_semantic, np_available) :
       LET r == is_duplicate(a, prior, seen_hashes, titles, embeddings,
                             enable_semantic, model_loaded, np_available,
                             config, backend[1], backend[2])
       IN r.dup /\ ~r.raised

\* C8: an is_duplicate call on an item that this Deduplicator was given to
\* mark_seen earlier returns (True, "hash"), whatever the call before the
\* mark returned and whatever other items were marked in between.
C8_SecondCallIsHashDuplicate ==
    (last_call.op = "is_duplicate" /\ last_call.article \in marked_run)
    => /\ ~last_call.raised
       /\ last_call.dup
       /\ last_call.reason = "hash"

\* The item was marked first, another title was marked after it, and the
\* item is then inspected again.
C8_Witness ==
    /\ last_call.op = "is_duplicate"
    /\ last_call.article \in marked_run
    /\ last_call.reason = "hash"
    /\ Len(titles) = 2
    /\ titles[1] = Strip(last_call.article.title)
    /\ titles[2] # titles[1]

\* C9: an item whose mark_seen has returned is a duplicate in every later
\* state: after further mark_seen calls (the title window rolls) and after
\* a new Deduplicator has loaded the same store file.
C9_SeenSurvives ==
    \A a \in saved_ever : AlwaysDuplicate(a)

\* A new Deduplicator has loaded the file, the title of the item is no
\* longer among the loaded titles, and the item is still reported.
C9_Witness ==
    /\ restarts > 0
    /\ last_call.op = "is_duplicate"
    /\ last_call.article \in saved_ever
    /\ last_call.article \notin marked_run
    /\ \A i \in 1..Len(titles) : titles[i] # Strip(last_call.article.title)
    /\ titles # <<>>
    /\ last_call.dup

StageOrder == <<"hash", "title", "semantic">>

\* C10: the stages run in the order hash, title, semantic and the first
\* match decides: a seen hash gives "hash" after the hash stage alone;
\* "title" is returned exactly when the hash is not seen and a title
\* matches, after two stages; "semantic" only when neither matched.
C10_StagesInStrictOrder ==
    LET c == last_call
    IN c.op = "is_duplicate" =>
          /\ \E n \in 1..3 : c.stages = SubSeq(StageOrder, 1, n)
          /\ c.hash_seen => (c.reason = "hash" /\ c.stages = <<"hash">>)
          /\ c.reason = "hash" => c.hash_seen
          /\ (~c.hash_seen /\ c.title_seen)
                => (c.reason = "title" /\ c.stages = <<"hash", "title">>)
          /\ c.reason = "title" => (~c.hash_seen /\ c.title_seen)
          /\ c.reason = "semantic"
                => (~c.hash_seen /\ ~c.title_seen /\ c.stages = StageOrder)
          /\ c.dup <=> (c.reason # None)

\* The hash, a title and an embedding all match; the reason is "hash".
C10_Witness ==
    /\ last_call.op = "is_duplicate"
    /\ last_call.hash_seen
    /\ last_call.title_seen
    /\ \E i \in 1..Len(embeddings) :
          Cosine(embeddings[i], Embedding(last_call.article.raw_text))
             >= config.semantic_threshold
    /\ last_call.reason = "hash"

\* C12 (as claimed): an is_duplicate call changes none of the hash set,
\* the title window, the embeddings, the semantic-stage enablement and
\* the store file.
C12_IsDuplicateHasNoSideEffects ==
    [][last_call'.op = "is_duplicate"
         => /\ seen_hashes' = seen_hashes
            /\ titles' = titles
            /\ embeddings' = embeddings
            /\ enable_semantic' = enable_semantic
            /\ store_file' = store_file]_vars

\* C12 (amended): an is_duplicate call changes none of the hash set, the
\* title window, the embeddings and the store file; the only change it
\* makes to the semantic-stage enablement is to switch it off when the
\* model failed to load.
C12_IsDuplicateKeepsSeenState ==
    [][last_call'.op = "is_duplicate"
         => /\ seen_hashes' = seen_hashes
            /\ titles' = titles
            /\ embeddings' = embeddings
            /\ store_file' = store_file
            /\ enable_semantic' # enable_semantic
                  => (enable_semantic /\ ~enable_semantic' /\ ~model_loaded')]_vars

\* Nothing was marked and nothing restarted: is_duplicate alone switched
\* the semantic stage off.
C12_Witness ==
    /\ last_call.op = "is_duplicate"
    /\ marks = 0
    /\ restarts = 0
    /\ config.enable_semantic
    /\ ~enable_semantic

\* C13: a second mark_seen on the same item, right after the first, leaves
\* the hash set, the title window and the store file as the first left
\* them.
C13_MarkSeenIdempotent ==
    [][(/\ last_call.op = "mark_seen"
        /\ ~last_call.raised
        /\ last_call'.op = "mark_seen"
        /\ ~last_call'.raised
        /\ last_call'.article = last_call.article)
         => /\ seen_hashes' = seen_hashes
            /\ titles' = titles
            /\ store_file' = store_file]_vars

\* C14: after a mark_seen call that returned, loading the store file gives
\* the hash set and the title window of the store that wrote it.
C14_FileHoldsCurrentState ==
    (last_call.op = "mark_seen" /\ ~last_call.raised)
    => /\ LoadedHashes(store_file) = seen_hashes
       /\ LoadedTitles(store_file) = titles

\* C15: a Deduplicator that has just loaded a file that is missing or does
\* not load has an empty hash set and an empty title window (nothing of
\* the file is kept), and loading again gives the same state.
C15_LoadTolerant ==
    /\ [](last_call.op \in {"none", "restart"}
            => /\ store_file.kind # "json"
                  => (seen_hashes = {} /\ titles = <<>>)
               /\ store_file.kind = "json"
                  => (seen_hashes = store_file.hashes
                      /\ titles = store_file.titles))
    /\ [][(last_call.op \in {"none", "restart"} /\ last_call'.op = "restart")
            => (seen_hashes' = seen_hashes /\ titles' = titles)]_vars

\* Loaded a second time, the file whose hashes load and whose titles do not.
C15_Witness ==
    /\ last_call.op = "restart"
    /\ store_file = PartialFile
    /\ seen_hashes = {}
    /\ titles = <<>>

\* C16: no call of is_duplicate or mark_seen lets a failure of the
\* embedding backend reach the caller (the failure is caught, and the
\* semantic stage is disabled from then on).
C16_BackendFailuresContained ==
    last_call.op \in {"is_duplicate", "mark_seen"}
    => ~last_call.raised

-----------------------------------------------------------------------------
(* The title stage at the threshold: a Deduplicator constructed with a     *)
(* title_threshold on a store file written by an earlier process.           *)

\* "ab", "ac", "abc", "cd", "AB": ratios 0.5 (ab/ac), 0.8 (ab/abc, ac/abc),
\* 0.4 (abc/cd), 0 (ab/cd), 1.0 (ab/AB).
TitleWords == {<<97, 98>>, <<97, 99>>, <<97, 98, 99>>, <<99, 100>>, <<65, 66>>}
TitleThresholds == {50, 80, TITLE_THRESHOLD}
TitleArticles ==
    {Article(t, "u", "Example Feed", <<>>, NoDate, None) : t \in TitleWords}
TitlePriors == {<<>>} \cup {<<t>> : t \in TitleWords}
TitleFiles ==
    {[kind |-> "json", hashes |-> h, titles |-> ts] :
        h \in {{}, {content_hash(<<97, 98>>, <<>>)}}, ts \in TitlePriors}

TitleInit ==
    /\ config \in {[DefaultConfig(FALSE) EXCEPT !.title_threshold = thr] :
                      thr \in TitleThresholds}
    /\ np_available = FALSE
    /\ store_file \in TitleFiles
    /\ Constructed(store_file)
    /\ last_call = NoCall
    /\ marked_run = {}
    /\ saved_ever = {}
    /\ marks = 0
    /\ restarts = 0

\* is_duplicate(article, prior_titles=prior); the call's prior_titles are
\* kept with its result.
InspectTitle ==
    /\ \E a \in TitleArticles, prior \in TitlePriors,
          backend \in BackendChoices(enable_semantic, np_available) :
          LET r == is_duplicate(a, prior, seen_hashes, titles, embeddings,
                                enable_semantic, model_loaded, np_available,
                                config, backend[1], backend[2])
          IN /\ enable_semantic' = r.enable_semantic
             /\ model_loaded' = r.model_loaded
             /\ last_call' = [op |-> "is_duplicate", article |-> a,
                              prior |-> prior,
                              hash_seen |-> HashSeen(a, seen_hashes),
                              dup |-> ~r.raised /\ r.dup,
                              reason |-> IF r.raised THEN None ELSE r.reason,
                              stages |-> r.stages, raised |-> r.raised]
    /\ UNCHANGED <<seen_hashes, titles, embeddings, np_available, config,
                   store_file, marked_run, saved_ever, marks, restarts>>
    /\ UNCHANGED NotDedup

TitleNext == InspectTitle

TitleStart == TitleInit /\ SelIdle /\ GroupIdle /\ RestIdle

SpecTitle == TitleStart /\ [][TitleNext]_vars

\* 2 * M / T of the inspected title and t, compared with the threshold in
\* exact arithmetic.
RatioTimesT(c, t) == 200 * MatchingChars(Lower(c.article.title), Lower(t))
ThresholdTimesT(c, t) ==
    config.title_threshold * (Len(c.article.title) + Len(t))
ComparedTitles(c) == c.prior \o titles

\* C11: when the hash is not seen, a title (prior or stored) whose ratio to
\* the inspected title equals the threshold makes the call return
\* (True, "title"); when every ratio is below the threshold the call does
\* not return "title".
C11_TitleThresholdInclusive ==
    LET c == last_call
        all == ComparedTitles(c)
    IN c.op = "is_duplicate" =>
          /\ (/\ ~c.hash_seen
              /\ \E i \in 1..Len(all) :
                    RatioTimesT(c, all[i]) = ThresholdTimesT(c, all[i]))
                => (c.dup /\ c.reason = "title")
          /\ (\A i \in 1..Len(all) :
                 RatioTimesT(c, all[i]) < ThresholdTimesT(c, all[i]))
                => c.reason # "title"

\* A prior and a stored title were compared, none is above the threshold,
\* one is exactly at it, and the reason is "title".
C11_Witness ==
    LET c == last_call
        all == ComparedTitles(c)
    IN /\ c.op = "is_duplicate"
       /\ ~c.hash_seen
       /\ Len(c.prior) = 1
       /\ Len(titles) = 1
       /\ \A i \in 1..2 : RatioTimesT(c, all[i]) <= ThresholdTimesT(c, all[i])
       /\ RatioTimesT(c, all[1]) < ThresholdTimesT(c, all[1])
       /\ RatioTimesT(c, all[2]) = ThresholdTimesT(c, all[2])
       /\ c.reason = "title"

-----------------------------------------------------------------------------
(* The article grouper as a state machine *)

\* "abcd"; "ABCD, abc abcd" under "Agile " (same topic as the first);
\* "efgh"; " b" and "a" without category or keyword; two titles that
\* agree on their first three keywords.
GroupArticles ==
    {Article(t[1], "u", "Example Feed", <<>>, NoDate, t[2]) :
        t \in {<<<<97, 98, 99, 100>>, "Agile">>,
               <<<<65, 66, 67, 68, 44, 32, 97, 98, 99, 32, 97, 98, 99, 100>>,
                 "Agile ">>,
               <<<<101, 102, 103, 104>>, "Agile">>,
               <<<<32, 98>>, None>>,
               <<<<97>>, None>>,
               <<<<97, 98, 99, 100, 32, 101, 102, 103, 104, 32,
                   105, 106, 107, 108, 32, 109, 110, 111, 112>>, "Agile">>,
               <<<<97, 98, 99, 100, 32, 101, 102, 103, 104, 32,
                   105, 106, 107, 108>>, "Agile">>}}

GroupMaxChoices == ((0 - 1)..MaxPerGroup) \cup {DEFAULT_MAX_PER_GROUP}

GroupInit ==
    /\ group_input = <<>>
    /\ max_per_group = 0
    /\ groups = <<>>
    /\ gpc = "input"

\* The caller builds the list of articles.
AddGroupArticle ==
    /\ gpc = "input"
    /\ Len(group_input) < MaxGroupInput
    /\ \E a \in GroupArticles : group_input' = Append(group_input, a)
    /\ UNCHANGED <<max_per_group, groups, gpc>>
    /\ UNCHANGED NotGroup

\* group_related_articles(articles, max_per_group=m)
GroupRelatedArticles ==
    /\ gpc = "input"
    /\ \E m \in GroupMaxChoices :
          /\ max_per_group' = m
          /\ groups' = group_related_articles(group_input, m)
    /\ gpc' = "grouped"
    /\ UNCHANGED group_input
    /\ UNCHANGED NotGroup

GroupNext ==
    \/ AddGroupArticle
    \/ GroupRelatedArticles

-----------------------------------------------------------------------------
(* Properties of the article grouper *)

Grouped == gpc = "grouped"
GroupPlaces == {pl \in (1..Len(groups)) \X (1..Len(group_input)) :
                   pl[2] <= Len(groups[pl[1]])}
FirstTitle(g) == groups[g][1].article.title

\* C17: every returned group has at most max_per_group items.
C17_GroupsWithinMax ==
    Grouped => \A g \in 1..Len(groups) : Len(groups[g]) <= max_per_group

\* C18: the groups partition the input: every input item is at exactly one
\* place of exactly one group, no group is empty, the items of a group
\* share the topic key, and of the groups of one key at most one is
\* smaller than max_per_group.
C18_GroupsPartitionInput ==
    Grouped =>
       /\ \A i \in 1..Len(group_input) :
             Cardinality({pl \in GroupPlaces :
                             groups[pl[1]][pl[2]].id = i}) = 1
       /\ \A pl \in GroupPlaces :
             LET it == groups[pl[1]][pl[2]]
             IN /\ it.id \in 1..Len(group_input)
                /\ it.article = group_input[it.id]
                /\ TopicKey(it.article) = TopicKey(groups[pl[1]][1].article)
       /\ \A g \in 1..Len(groups) : groups[g] # <<>>
       /\ \A g, h \in 1..Len(groups) :
             (/\ g # h
              /\ TopicKey(groups[g][1].article) = TopicKey(groups[h][1].article)
              /\ Len(groups[g]) < max_per_group)
                => Len(groups[h]) >= max_per_group

\* Three items of one topic with max_per_group = 2: a full group and the
\* overflow group of the same key.
C18_Witness ==
    /\ Grouped
    /\ max_per_group = 2
    /\ \E g, h \in 1..Len(groups) :
          /\ g # h
          /\ TopicKey(groups[g][1].article) = TopicKey(groups[h][1].article)
          /\ Len(groups[g]) = 2
          /\ Len(groups[h]) = 1
          /\ groups[g][1].article.category # groups[g][2].article.category

-----------------------------------------------------------------------------
(* Duplicate detector: idle values used while the other component runs *)

DedupIdle ==
    /\ seen_hashes = {}
    /\ titles = <<>>
    /\ embeddings = <<>>
    /\ enable_semantic = FALSE
    /\ model_loaded = FALSE
    /\ np_available = FALSE
    /\ config = DefaultConfig(FALSE)
    /\ store_file = MissingFile
    /\ last_call = NoCall
    /\ marked_run = {}
    /\ saved_ever = {}
    /\ marks = 0
    /\ restarts = 0

SelectInit == SelInit /\ DedupIdle /\ GroupIdle /\ RestIdle

SpecSelect == SelectInit /\ [][SelNext]_vars

GroupStart == GroupInit /\ SelIdle /\ DedupIdle /\ RestIdle

SpecGroup == GroupStart /\ [][GroupNext]_vars

-----------------------------------------------------------------------------
(* Issue tracker client: GitHubClient.create_issue                          *)
(*                                                                         *)
(* Delays are counted in 1/DelayUnit seconds, so that 1.5 ** attempt is an  *)
(* integer for every attempt of the loop.                                   *)

MAX_ATTEMPTS == 4            \* for attempt in range(4)
BACKOFF_NUM == 3             \* backoff = 1.5 = 3 / 2
BACKOFF_DEN == 2
DelayUnit == Pow(BACKOFF_DEN, MAX_ATTEMPTS - 1)

BackoffDelayLinear(attempt) == DelayUnit * (attempt + 1)

\* backoff ** attempt
BackoffDelay(attempt) == Pow(BACKOFF_NUM, attempt) * Pow(BACKOFF_DEN, MAX_ATTEMPTS - 1 - attempt)

IssueNumbers == {1, 2}
RepoName == "owner/repo"

\* What self._repo.create_issue(...) can do: hand back an issue, raise a
\* GithubException with a status, or raise anything else.
Created(n) == [kind |-> "ok", number |-> n]
GithubException(status) == [kind |-> "github", status |-> status]
OtherError == [kind |-> "error"]
Statuses == {403, 429, 422, 404, 500}
Responses == {Created(n) : n \in IssueNumbers} \cup {GithubException(st) : st \in Statuses} \cup {OtherError}

OnResponseRetryAll(resp, attempt) == IF resp.kind = "ok" THEN [do |-> "return", value |-> resp.number] ELSE [do |-> "sleep", delay |-> BackoffDelay(attempt)]

\* The body of one loop iteration after the creation call came back.
OnResponse(resp, attempt) ==
    IF resp.kind = "ok" THEN [do |-> "return", value |-> resp.number]
    ELSE IF resp.kind = "github" /\ resp.status \in {403, 429}
         THEN [do |-> "sleep", delay |-> BackoffDelay(attempt)]
    ELSE IF resp.kind = "github" /\ resp.status \in {422, 404}
         THEN [do |-> "raise", exc |-> resp]
    ELSE [do |-> "sleep", delay |-> BackoffDelay(attempt)]

CreateEvent(attempt, resp) == [ev |-> "create", attempt |-> attempt, resp |-> resp]
BackoffSleep(attempt, delay) == [ev |-> "sleep", why |-> "backoff", attempt |-> attempt, delay |-> delay]
RateLimitSleep(attempt) == [ev |-> "sleep", why |-> "rate_limit", attempt |-> attempt]

\* GitHubClient(token=..., repo=..., dry_run=...): the constructor raises
\* without a token unless dry_run is set.
IssueInit ==
    /\ gh_client \in BOOLEAN
    /\ gh_dry_run \in BOOLEAN
    /\ gh_client \/ gh_dry_run
    /\ gh_repo_name \in {None, RepoName}
    /\ gh_repo = IF gh_client /\ gh_repo_name # None THEN gh_repo_name ELSE None
    /\ gh_pc = "ready"
    /\ gh_attempt = 0
    /\ gh_trace = <<>>
    /\ gh_result = NoResult

\* create_issue up to the retry loop
CreateIssueEnter ==
    /\ gh_pc = "ready"
    /\ IF gh_dry_run
       THEN /\ gh_pc' = "returned"
            /\ gh_result' = Returned(None)
            /\ UNCHANGED gh_repo
       ELSE IF gh_repo = None /\ gh_repo_name = None
       THEN /\ gh_pc' = "raised"
            /\ gh_result' = Raised("RuntimeError: Repository not provided")
            /\ UNCHANGED gh_repo
       ELSE /\ gh_pc' = "loop"
            /\ gh_result' = NoResult
            /\ gh_repo' = IF gh_repo = None THEN gh_repo_name ELSE gh_repo
    /\ UNCHANGED <<gh_client, gh_dry_run, gh_repo_name, gh_attempt, gh_trace>>
    /\ UNCHANGED NotIssue

\* one iteration of `for attempt in range(4)`
CreateIssueAttempt ==
    /\ gh_pc = "loop"
    /\ gh_attempt < MAX_ATTEMPTS
    /\ \E limited \in BOOLEAN, resp \in Responses :
         LET waited == IF limited THEN <<RateLimitSleep(gh_attempt)>> ELSE <<>>
             called == waited \o <<CreateEvent(gh_attempt, resp)>>
             todo == OnResponse(resp, gh_attempt)
         IN  CASE todo.do = "return" ->
                    /\ gh_trace' = gh_trace \o called
                    /\ gh_result' = Returned(todo.value)
                    /\ gh_pc' = "returned"
                    /\ UNCHANGED gh_attempt
               [] todo.do = "raise" ->
                    /\ gh_trace' = gh_trace \o called
                    /\ gh_result' = Raised(todo.exc)
                    /\ gh_pc' = "raised"
                    /\ UNCHANGED gh_attempt
               [] todo.do = "sleep" ->
                    /\ gh_trace' = gh_trace \o called \o <<BackoffSleep(gh_attempt, todo.delay)>>
                    /\ gh_attempt' = gh_attempt + 1
                    /\ UNCHANGED <<gh_result, gh_pc>>
    /\ UNCHANGED <<gh_client, gh_dry_run, gh_repo_name, gh_repo>>
    /\ UNCHANGED NotIssue

\* the loop ran out: raise RuntimeError("Failed to create issue after retries")
CreateIssueGiveUp ==
    /\ gh_pc = "loop"
    /\ gh_attempt = MAX_ATTEMPTS
    /\ gh_pc' = "raised"
    /\ gh_result' = Raised("RuntimeError: Failed to create issue after retries")
    /\ UNCHANGED <<gh_client, gh_dry_run, gh_repo_name, gh_repo, gh_attempt, gh_trace>>
    /\ UNCHANGED NotIssue

IssueNext ==
    \/ CreateIssueEnter
    \/ CreateIssueAttempt
    \/ CreateIssueGiveUp

IssueStart == IssueInit /\ SelIdle /\ DedupIdle /\ GroupIdle /\ RetryIdle /\ ArchiveIdle /\ FetchIdle /\ RunIdle /\ FilterIdle /\ PipeIdle

SpecIssue == IssueStart /\ [][IssueNext]_vars

\* create_issue is one sequential call: once entered it runs to its end.
SpecIssueFair == IssueStart /\ [][IssueNext]_vars /\ WF_vars(IssueNext)

-----------------------------------------------------------------------------
(* Claims about create_issue *)

Creates == {i \in 1..Len(gh_trace) : gh_trace[i].ev = "create"}
IsStatus(e, sts) == e.ev = "create" /\ e.resp.kind = "github" /\ e.resp.status \in sts
IssueDone == gh_pc \in {"returned", "raised"}

\* C21: a creation attempt answered with HTTP 422 or 404 is the last thing
\* create_issue does, at whichever attempt it occurs: no creation attempt and
\* no backoff sleep follows it, and the call has raised that very error.
C21_ValidationErrorRaisesAtOnce ==
    \A i \in 1..Len(gh_trace) :
        IsStatus(gh_trace[i], {422, 404}) =>
            /\ i = Len(gh_trace)
            /\ gh_pc = "raised"
            /\ gh_result = Raised(gh_trace[i].resp)

\* a validation error at the third attempt, after two retried failures
C21_Witness ==
    /\ gh_pc = "raised"
    /\ Len(gh_trace) > 0
    /\ gh_trace[Len(gh_trace)] = CreateEvent(2, GithubException(422))
    /\ \E i \in Creates : IsStatus(gh_trace[i], {403, 429})

C22_Outcome ==
    \* at most four creation attempts, numbered in order
    /\ Cardinality(Creates) <= 4
    /\ \A i, j \in Creates : i < j => gh_trace[i].attempt < gh_trace[j].attempt
    \* a transient failure is followed by a sleep of 1.5 ** attempt seconds
    /\ \A i \in Creates :
          IsStatus(gh_trace[i], {403, 429}) =>
             /\ i < Len(gh_trace)
             /\ gh_trace[i + 1].ev = "sleep"
             /\ gh_trace[i + 1].why = "backoff"
             /\ gh_trace[i + 1].delay * Pow(2, gh_trace[i].attempt) = DelayUnit * Pow(3, gh_trace[i].attempt)
    \* ... and, unless it was the fourth attempt, by another attempt
    /\ IssueDone =>
          \A i \in Creates :
             (IsStatus(gh_trace[i], {403, 429}) /\ gh_trace[i].attempt < 3) =>
                 \E j \in Creates : gh_trace[j].attempt = gh_trace[i].attempt + 1
    \* the first success ends the call with its issue number
    /\ \A i \in Creates :
          gh_trace[i].resp.kind = "ok" =>
             /\ i = Len(gh_trace)
             /\ gh_pc = "returned"
             /\ gh_result = Returned(gh_trace[i].resp.number)
    \* without a success the call does not return (outside dry-run)
    /\ (gh_pc = "returned" /\ ~gh_dry_run) =>
          \E i \in Creates : gh_trace[i].resp.kind = "ok"
    /\ (IssueDone /\ Cardinality(Creates) = 4
          /\ \A i \in Creates : gh_trace[i].resp.kind # "ok") =>
             /\ gh_pc = "raised"
             /\ gh_result.kind = "raise"

\* C22: create_issue retries transient failures (403/429) after a delay of
\* 1.5 ** attempt seconds, makes at most four creation attempts, returns the
\* issue number of the first successful attempt without attempting again,
\* raises when every attempt failed, and always comes to an end.
C22_RetriesBoundedAndTerminates == [](C22_Outcome) /\ <>(IssueDone)

\* success at the fourth attempt after three throttled ones
C22_Witness ==
    /\ gh_pc = "returned"
    /\ Cardinality(Creates) = 4
    /\ gh_result = Returned(2)
    /\ \A i \in Creates : i < Len(gh_trace) => IsStatus(gh_trace[i], {403, 429})

-----------------------------------------------------------------------------
(* Retry helper: processors/ai/retry.py with_retries *)

MaxRetries == 2              \* largest generated retries value (the default)
DEFAULT_BACKOFF == <<3, 2>>  \* backoff: float = 1.5

\* int(env_retries) and float(env_backoff) on the generated strings;
\* "abc" and "" make them raise ValueError.
EnvRetriesChoices == {None, "abc", "-1", "0", "1"}
EnvBackoffChoices == {None, "", "2"}
ParsesAsInt(str) == str \in {"-1", "0", "1"}
IntOf(str) == CASE str = "-1" -> 0 - 1 [] str = "0" -> 0 [] str = "1" -> 1
ParsesAsFloat(str) == str \in {"2"}
FloatOf(str) == CASE str = "2" -> <<2, 1>>

\* what fn() can do
FnValues == {"Agile"}
FnErrors == {"TimeoutError", "ValueError"}
FnOutcomes == {Returned(v) : v \in FnValues} \cup {Raised(e) : e \in FnErrors}

FnCall(attempt, outcome) == [ev |-> "call", attempt |-> attempt, outcome |-> outcome]
\* time.sleep(backoff ** attempt), the delay as <<numerator, denominator>>
RetrySleep(attempt, backoff) == [ev |-> "sleep", attempt |-> attempt, delay |-> <<Pow(backoff[1], attempt), Pow(backoff[2], attempt)>>]

RetryInit ==
    /\ wr_retries \in (0 - 2)..MaxRetries
    /\ wr_backoff = DEFAULT_BACKOFF
    /\ wr_env \in [AI_RETRIES : EnvRetriesChoices, AI_BACKOFF : EnvBackoffChoices]
    /\ wr_optimized \in BOOLEAN
    /\ wr_pc = "ready"
    /\ wr_attempt = 0
    /\ wr_last_exc = None
    /\ wr_trace = <<>>
    /\ wr_result = NoResult

\* lines 16-28: the environment overrides; an unparsable value is ignored
WithRetriesEnter ==
    /\ wr_pc = "ready"
    /\ wr_retries' = IF wr_env.AI_RETRIES # None /\ ParsesAsInt(wr_env.AI_RETRIES)
                     THEN IntOf(wr_env.AI_RETRIES) ELSE wr_retries
    /\ wr_backoff' = IF wr_env.AI_BACKOFF # None /\ ParsesAsFloat(wr_env.AI_BACKOFF)
                     THEN FloatOf(wr_env.AI_BACKOFF) ELSE wr_backoff
    /\ wr_last_exc' = None
    /\ wr_pc' = "loop"
    /\ UNCHANGED <<wr_env, wr_optimized, wr_attempt, wr_trace, wr_result>>
    /\ UNCHANGED NotRetry

\* one iteration of `for attempt in range(retries + 1)`
WithRetriesAttempt ==
    /\ wr_pc = "loop"
    /\ wr_attempt < wr_retries + 1
    /\ \E outcome \in FnOutcomes :
         IF outcome.kind = "return"
         THEN /\ wr_trace' = Append(wr_trace, FnCall(wr_attempt, outcome))
              /\ wr_result' = outcome
              /\ wr_pc' = "returned"
              /\ UNCHANGED <<wr_attempt, wr_last_exc>>
         ELSE /\ wr_last_exc' = outcome.exc
              /\ UNCHANGED wr_result
              /\ IF wr_attempt >= wr_retries
                 THEN /\ wr_trace' = Append(wr_trace, FnCall(wr_attempt, outcome))
                      /\ wr_pc' = "after"
                      /\ UNCHANGED wr_attempt
                 ELSE /\ wr_trace' = wr_trace \o <<FnCall(wr_attempt, outcome), RetrySleep(wr_attempt, wr_backoff)>>
                      /\ wr_attempt' = wr_attempt + 1
                      /\ UNCHANGED wr_pc
    /\ UNCHANGED <<wr_retries, wr_backoff, wr_env, wr_optimized>>
    /\ UNCHANGED NotRetry

\* lines 39-40: `assert last_exc is not None; raise last_exc`, reached by
\* `break` or when range(retries + 1) is exhausted.  Without the assert
\* (python -O), `raise None` is a TypeError.
WithRetriesAfterLoop ==
    /\ \/ wr_pc = "after"
       \/ wr_pc = "loop" /\ wr_attempt >= wr_retries + 1
    /\ wr_pc' = "raised"
    /\ wr_result' = IF wr_last_exc # None THEN Raised(wr_last_exc)
                    ELSE IF wr_optimized THEN Raised("TypeError")
                    ELSE Raised("AssertionError")
    /\ UNCHANGED <<wr_retries, wr_backoff, wr_env, wr_optimized, wr_attempt, wr_last_exc, wr_trace>>
    /\ UNCHANGED NotRetry

RetryNext ==
    \/ WithRetriesEnter
    \/ WithRetriesAttempt
    \/ WithRetriesAfterLoop

RetryStart == RetryInit /\ SelIdle /\ DedupIdle /\ GroupIdle /\ IssueIdle /\ ArchiveIdle /\ FetchIdle /\ RunIdle /\ FilterIdle /\ PipeIdle

SpecRetry == RetryStart /\ [][RetryNext]_vars

FnCalls == {i \in 1..Len(wr_trace) : wr_trace[i].ev = "call"}
RetryDone == wr_pc \in {"returned", "raised"}

\* C28: for every configured retries value with_retries calls fn at most
\* retries + 1 times, a successful call is the last one and its result is
\* returned, a sleep of backoff ** attempt comes only between a failed call
\* and the next call, and a call of with_retries that raises raises the
\* exception of its last call of fn.
C28_WithRetriesBounded ==
    /\ RetryDone => Cardinality(FnCalls) <= wr_retries + 1
    /\ \A i \in FnCalls :
          wr_trace[i].outcome.kind = "return" =>
             /\ i = Len(wr_trace)
             /\ wr_result = wr_trace[i].outcome
    /\ \A i \in 1..Len(wr_trace) :
          wr_trace[i].ev = "sleep" =>
             /\ i > 1
             /\ wr_trace[i - 1].ev = "call"
             /\ wr_trace[i - 1].outcome.kind = "raise"
             /\ wr_trace[i].delay = <<Pow(wr_backoff[1], wr_trace[i - 1].attempt), Pow(wr_backoff[2], wr_trace[i - 1].attempt)>>
             /\ RetryDone => (i < Len(wr_trace) /\ wr_trace[i + 1].ev = "call")
    /\ wr_pc = "raised" =>
          /\ wr_trace # <<>>
          /\ wr_trace[Len(wr_trace)].ev = "call"
          /\ wr_result = wr_trace[Len(wr_trace)].outcome

-----------------------------------------------------------------------------
(* Monthly archive: analysis/monthly_archive.py                             *)
(* One month's file.  A dict that keeps insertion order is a sequence of    *)
(* rows with pairwise different keys.                                       *)

MaxBatch == 2                \* longest list handed to store_articles

Month == "2026-11"

\* an Article with all its eight fields
FullArticle(t, u) ==
    [title |-> t, url |-> u, source |-> "Example Feed", raw_text |-> "text",
     published_date |-> None, category |-> None, summary |-> None,
     confidence_score |-> None]

ArchiveArticles ==
    {FullArticle("a", ""), FullArticle("a", "u1"), FullArticle("b", "u1"),
     FullArticle("a", "u2")}

Batches == UNION {[1..n -> ArchiveArticles] : n \in 0..MaxBatch}

_article_to_dict(a) ==
    [title |-> a.title, url |-> a.url, source |-> a.source,
     raw_text |-> a.raw_text, published_date |-> a.published_date,
     category |-> a.category, summary |-> a.summary,
     confidence_score |-> a.confidence_score]

\* d.get(k) or ""
OrEmpty(v) == IF v = None \/ v = "" THEN "" ELSE v

_dict_to_article(d) ==
    [title |-> OrEmpty(d.title), url |-> OrEmpty(d.url),
     source |-> OrEmpty(d.source), raw_text |-> OrEmpty(d.raw_text),
     published_date |-> d.published_date, category |-> d.category,
     summary |-> d.summary, confidence_score |-> d.confidence_score]

CorruptArchive == [kind |-> "corrupt", month |-> None, count |-> 0, articles |-> <<>>]
ArchivePayload(slug, rows) == [kind |-> "json", month |-> slug, count |-> Len(rows), articles |-> rows]

\* Mutant: the row is appended whether or not its URL is present.
SetItemAppend(rows, key, d) == Append(rows, d)

\* existing[key] = d
SetItem(rows, key, d) ==
    IF \E i \in 1..Len(rows) : rows[i].url = key
    THEN [i \in 1..Len(rows) |-> IF rows[i].url = key THEN d ELSE rows[i]]
    ELSE Append(rows, d)

\* lines 67-78: the rows of the file that have a non-empty url, keyed by url
RECURSIVE ExistingRows(_, _, _)
ExistingRows(file_rows, i, acc) ==
    IF i > Len(file_rows) THEN acc
    ELSE ExistingRows(file_rows, i + 1,
            IF file_rows[i].url \notin {None, ""}
            THEN SetItem(acc, file_rows[i].url, file_rows[i]) ELSE acc)

\* lines 80-82
RECURSIVE MergeBatch(_, _, _)
MergeBatch(batch, i, acc) ==
    IF i > Len(batch) THEN acc
    ELSE MergeBatch(batch, i + 1,
            SetItem(acc, _article_to_dict(batch[i]).url, _article_to_dict(batch[i])))

store_articles(file, batch, slug) ==
    LET existing == IF file.kind = "json" THEN ExistingRows(file.articles, 1, <<>>) ELSE <<>>
    IN  ArchivePayload(slug, MergeBatch(batch, 1, existing))

load_monthly_articles(file) ==
    IF file.kind = "json"
    THEN [i \in 1..Len(file.articles) |-> _dict_to_article(file.articles[i])]
    ELSE <<>>

\* the last article of each URL in the batch
BatchSurvivors(batch) ==
    {batch[i] : i \in {k \in 1..Len(batch) : \A j \in (k + 1)..Len(batch) : batch[j].url # batch[k].url}}

ArchiveInit ==
    /\ ar_file \in {AbsentArchive, CorruptArchive}
    /\ ar_prev_file = AbsentArchive
    /\ ar_last_batch = <<>>
    /\ ar_repeated = FALSE
    /\ ar_live = {}
    /\ ar_loaded = <<>>
    /\ ar_pc = "new"

StoreArticles ==
    /\ ar_pc \in {"new", "stored", "loaded"}
    /\ \E batch \in Batches :
         /\ ar_file' = store_articles(ar_file, batch, Month)
         /\ ar_prev_file' = ar_file
         /\ ar_last_batch' = batch
         /\ ar_repeated' = (ar_pc # "new" /\ batch = ar_last_batch)
         /\ ar_live' = {a \in ar_live : \A i \in 1..Len(batch) : batch[i].url # a.url}
                          \cup BatchSurvivors(batch)
    /\ ar_loaded' = <<>>
    /\ ar_pc' = "stored"
    /\ UNCHANGED NotArchive

LoadMonthlyArticles ==
    /\ ar_pc \in {"new", "stored", "loaded"}
    /\ ar_loaded' = load_monthly_articles(ar_file)
    /\ ar_pc' = IF ar_pc = "new" THEN "new" ELSE "loaded"
    /\ UNCHANGED <<ar_file, ar_prev_file, ar_last_batch, ar_repeated, ar_live>>
    /\ UNCHANGED NotArchive

ArchiveNext ==
    \/ StoreArticles
    \/ LoadMonthlyArticles

ArchiveStart == ArchiveInit /\ SelIdle /\ DedupIdle /\ GroupIdle /\ IssueIdle /\ RetryIdle /\ FetchIdle /\ RunIdle /\ FilterIdle /\ PipeIdle

SpecArchive == ArchiveStart /\ [][ArchiveNext]_vars

-----------------------------------------------------------------------------
(* Claims about the monthly archive *)

Rows(file) == {file.articles[i] : i \in 1..Len(file.articles)}

\* C23: store_articles merges by URL and is idempotent: the month's file
\* never holds two entries with the same URL, `count` is the number of
\* entries, every article of the stored list (the last one of each URL) is
\* the one entry of its URL, and storing the same list a second time leaves
\* the same entries and the same count.
C23_StoreIdempotentMergesByUrl ==
    ar_pc \in {"stored", "loaded"} =>
        /\ ar_file.kind = "json"
        /\ \A i, j \in 1..Len(ar_file.articles) :
              ar_file.articles[i].url = ar_file.articles[j].url => i = j
        /\ ar_file.count = Len(ar_file.articles)
        /\ \A a \in BatchSurvivors(ar_last_batch) :
              \A r \in Rows(ar_file) : r.url = a.url => r = _article_to_dict(a)
        /\ \A a \in BatchSurvivors(ar_last_batch) : _article_to_dict(a) \in Rows(ar_file)
        /\ ar_repeated =>
              /\ Rows(ar_file) = Rows(ar_prev_file)
              /\ ar_file.count = ar_prev_file.count

\* the same two-article list, both of one URL, stored twice on top of
\* another entry
C23_Witness ==
    /\ ar_pc = "stored"
    /\ ar_repeated
    /\ ar_last_batch = <<FullArticle("a", "u1"), FullArticle("b", "u1")>>
    /\ ar_file.count = 2
    /\ FullArticle("b", "u1") \in Rows(ar_file)

\* C24: every article once stored is still returned by
\* load_monthly_articles, whatever its URL, unless a later stored article
\* with the same URL has replaced it.
C24_StoredArticlesStayLoadable ==
    ar_pc = "loaded" =>
        \A a \in ar_live : \E i \in 1..Len(ar_loaded) : ar_loaded[i] = a

-----------------------------------------------------------------------------
(* Concurrent fetch: Orchestrator._fetch_source and Orchestrator.fetch_all  *)

MaxLimit == 2                \* largest generated max_items_per_source / max_total_items

Source(name, type) == [name |-> name, url |-> "https://example.org/" \o name, type |-> type]
SourceA == Source("A", "rss")
SourceB == Source("B", "http")
SourceC == Source("C", "ftp")
AllSources == <<SourceA, SourceB, SourceC>>

RSSItem(title, link, description, content) == [title |-> title, link |-> link, description |-> description, published |-> None, content |-> content]
HTTPItem(title, url, description, content) == [title |-> title, url |-> url, description |-> description, content |-> content]

\* what fetch_rss_entries / fetch_http_entries hand back when they do not raise
Entries(source) ==
    CASE source.type = "rss" ->
            <<RSSItem("a1", "https://a/1", "d", "c"), RSSItem("a2", "https://a/2", "d", None)>>
      [] source.type = "http" ->
            <<HTTPItem(None, source.url, None, None)>>
      [] OTHER -> <<>>

\* x or y
Or(x, y) == IF x \in {None, ""} THEN y ELSE x

\* lines 47-56 and 59-66: the Article built from one fetched item
ArticleOf(source, item) ==
    IF source.type = "rss"
    THEN Article(item.title, item.link, source.name, Or(item.content, Or(item.description, "")), IF item.published # None THEN item.published ELSE None, None)
    ELSE Article(Or(item.title, source.name), item.url, source.name, Or(item.content, Or(item.description, "")), None, None)

\* Mutant: a source whose fetcher raised still hands back its articles.
_fetch_source_keeps_items(source, fetch_raises) == Returned([i \in 1..Len(Entries(source)) |-> ArticleOf(source, Entries(source)[i])])

\* _fetch_source: the fetcher raises before any article is appended
_fetch_source(source, fetch_raises) ==
    IF fetch_raises /\ source.type \in {"rss", "http"}
    THEN Returned(<<>>)
    ELSE Returned([i \in 1..Len(Entries(source)) |-> ArticleOf(source, Entries(source)[i])])

\* items[: limit] when the limit is configured and not negative
Truncate(items, limit) ==
    IF limit.given /\ limit.n >= 0 THEN SliceTo(items, limit.n) ELSE items

LimitChoices == {NoLimit} \cup {Limit(n) : n \in (0 - 1)..MaxLimit}

\* sub-lists of AllSources
SourceLists ==
    {SelectSeq(AllSources, LAMBDA src : src \in keep) : keep \in SUBSET {SourceA, SourceB, SourceC}}

Queued == [pc |-> "queued", raised |-> FALSE, outcome |-> NoResult]

FetchInit ==
    /\ fa_sources \in SourceLists
    /\ fa_per_source \in LimitChoices
    /\ fa_max_total \in LimitChoices
    /\ fa_futures = <<>>
    /\ fa_collected = <<>>
    /\ fa_results = <<>>
    /\ fa_pc = "ready"
    /\ fa_return = NoResult

\* lines 79-87: an empty list returns at once, otherwise every source is
\* submitted to the pool (max_workers = min(16, len(src_list)))
FetchAllSubmit ==
    /\ fa_pc = "ready"
    /\ IF fa_sources = <<>>
       THEN /\ fa_pc' = "returned"
            /\ fa_return' = Returned(<<>>)
            /\ UNCHANGED fa_futures
       ELSE /\ fa_pc' = "collecting"
            /\ fa_futures' = [i \in 1..Len(fa_sources) |-> Queued]
            /\ UNCHANGED fa_return
    /\ UNCHANGED <<fa_sources, fa_per_source, fa_max_total, fa_collected, fa_results>>
    /\ UNCHANGED NotFetch

\* a pool thread takes a submitted call
WorkerStart ==
    /\ \E i \in 1..Len(fa_futures) :
         /\ fa_futures[i].pc = "queued"
         /\ fa_futures' = [fa_futures EXCEPT ![i].pc = "running"]
    /\ UNCHANGED <<fa_sources, fa_per_source, fa_max_total, fa_collected, fa_results, fa_pc, fa_return>>
    /\ UNCHANGED NotFetch

\* the pool thread finishes _fetch_source; the fetcher raised or not
WorkerFinish ==
    /\ \E i \in 1..Len(fa_futures), fetch_raises \in BOOLEAN :
         /\ fa_futures[i].pc = "running"
         /\ fa_futures' = [fa_futures EXCEPT ![i] = [pc |-> "done", raised |-> fetch_raises /\ fa_sources[i].type \in {"rss", "http"}, outcome |-> _fetch_source(fa_sources[i], fetch_raises)]]
    /\ UNCHANGED <<fa_sources, fa_per_source, fa_max_total, fa_collected, fa_results, fa_pc, fa_return>>
    /\ UNCHANGED NotFetch

\* lines 88-98: one iteration of `for fut in as_completed(future_map)`
CollectCompleted ==
    /\ fa_pc = "collecting"
    /\ \E i \in 1..Len(fa_futures) :
         /\ fa_futures[i].pc = "done"
         /\ \A k \in 1..Len(fa_collected) : fa_collected[k] # i
         /\ LET items == IF fa_futures[i].outcome.kind = "return" THEN fa_futures[i].outcome.value ELSE <<>>
            IN  fa_results' = fa_results \o Truncate(items, fa_per_source)
         /\ fa_collected' = Append(fa_collected, i)
    /\ UNCHANGED <<fa_sources, fa_per_source, fa_max_total, fa_futures, fa_pc, fa_return>>
    /\ UNCHANGED NotFetch

\* lines 100-104
FetchAllReturn ==
    /\ fa_pc = "collecting"
    /\ Len(fa_collected) = Len(fa_futures)
    /\ fa_results' = Truncate(fa_results, fa_max_total)
    /\ fa_return' = Returned(Truncate(fa_results, fa_max_total))
    /\ fa_pc' = "returned"
    /\ UNCHANGED <<fa_sources, fa_per_source, fa_max_total, fa_futures, fa_collected>>
    /\ UNCHANGED NotFetch

FetchNext ==
    \/ FetchAllSubmit
    \/ WorkerStart
    \/ WorkerFinish
    \/ CollectCompleted
    \/ FetchAllReturn

FetchStart == FetchInit /\ SelIdle /\ DedupIdle /\ GroupIdle /\ IssueIdle /\ RetryIdle /\ ArchiveIdle /\ RunIdle /\ FilterIdle /\ PipeIdle

SpecFetch == FetchStart /\ [][FetchNext]_vars

-----------------------------------------------------------------------------
(* Claims about fetch_all *)

\* the articles of the i-th source when its fetch succeeds, in source order
SourceArticles(i) == [k \in 1..Len(Entries(fa_sources[i])) |-> ArticleOf(fa_sources[i], Entries(fa_sources[i])[k])]

\* what the i-th source is to contribute: nothing when its fetch raised,
\* otherwise its articles up to max_items_per_source
Contribution(i) ==
    IF fa_futures[i].raised THEN <<>>
    ELSE IF fa_per_source.given /\ fa_per_source.n >= 0
         THEN SubSeq(SourceArticles(i), 1, Min(fa_per_source.n, Len(SourceArticles(i))))
    ELSE SourceArticles(i)

RECURSIVE InCompletionOrder(_)
InCompletionOrder(k) ==
    IF k = 0 THEN <<>> ELSE InCompletionOrder(k - 1) \o Contribution(fa_collected[k])

\* C25: under every interleaving of the fetch workers fetch_all returns and
\* does not raise; a source whose fetch raised contributes nothing; the
\* result is the contributions of the sources, each kept together in source
\* order, one after the other in completion order, cut to max_total_items.
C25_FetchFailuresIsolated ==
    /\ fa_return.kind # "raise"
    /\ fa_pc = "returned" =>
          /\ fa_return.kind = "return"
          /\ \A k \in 1..Len(fa_return.value) :
                \A i \in 1..Len(fa_futures) :
                    fa_futures[i].raised => fa_return.value[k].source # fa_sources[i].name
          /\ LET all == InCompletionOrder(Len(fa_collected))
             IN  fa_return.value =
                    IF fa_max_total.given /\ fa_max_total.n >= 0
                    THEN SubSeq(all, 1, Min(fa_max_total.n, Len(all)))
                    ELSE all

\* source A failed, B and C completed before it, B's article is returned
C25_Witness ==
    /\ fa_pc = "returned"
    /\ Len(fa_sources) = 3
    /\ fa_futures[1].raised
    /\ ~fa_futures[2].raised
    /\ fa_collected[3] = 1
    /\ Len(fa_return.value) = 1

-----------------------------------------------------------------------------
(* Orchestrator.run: normalise, deduplicate, classify, summarise and create *)
(* one issue per accepted article.  Confidences are in thousandths.        *)

MaxFetched == 2              \* longest generated fetched_all

_CATEGORIES == <<"Agile", "DevOps", "Architecture/Infra", "Leadership">>
DEFAULT_CATEGORY == "Architecture/Infra"
SUMMARY_WORDS == 60
SUMMARY_PENDING == "(summary pending)"

\* a float, as thousandths; NaN; or a value float() does not take
Num(m) == [kind |-> "num", milli |-> m]
NaN == [kind |-> "nan", milli |-> 0]
NotANumber == [kind |-> "text", milli |-> 0]
NoScore == [kind |-> "none", milli |-> 0]

\* a < b on floats: every comparison with NaN is false
FloatLess(a, b) == a.kind = "num" /\ b.kind = "num" /\ a.milli < b.milli
\* Python's min(a, b) and max(a, b): the first argument unless the second
\* compares smaller (greater)
PyMin(a, b) == IF FloatLess(b, a) THEN b ELSE a
PyMax(a, b) == IF FloatLess(a, b) THEN b ELSE a

\* what the classification collaborator hands to classify_text: a
\* (category, confidence) pair, something that is not a pair, or an
\* exception once the retries are used up
Pair(c, conf) == [pair |-> TRUE, category |-> c, confidence |-> conf]
NotAPair == [pair |-> FALSE, category |-> None, confidence |-> NoScore]
ClassifyOutcomes ==
    {Returned(Pair("Agile", Num(500))),
     Returned(Pair("Leadership", Num(1500))),
     Returned(Pair("DevOps", Num(0 - 500))),
     Returned(Pair("DevOps", NotANumber)),
     Returned(Pair("DevOps", NoScore)),
     Returned(Pair("Agile", NaN)),
     Returned(Pair("Other", Num(900))),
     Returned(Pair(None, Num(900))),
     Returned(NotAPair),
     Raised("TimeoutError")}

\* Mutant: the confidence is handed on as it came.
classify_text_unclamped(outcome) == IF outcome.kind = "raise" THEN outcome ELSE IF ~outcome.value.pair THEN Raised("TypeError") ELSE Returned(<<outcome.value.category, outcome.value.confidence>>)

\* classify_text, lines 48-58, on the outcome of classify_with_retry
classify_text(outcome) ==
    IF outcome.kind = "raise" THEN outcome
    ELSE IF ~outcome.value.pair THEN Raised("TypeError")
    ELSE LET category == outcome.value.category
             conf == outcome.value.confidence
             conf_f == IF conf.kind \in {"num", "nan"} THEN conf ELSE Num(0)
         IN  IF \A k \in 1..Len(_CATEGORIES) : _CATEGORIES[k] # category
             THEN Returned(<<DEFAULT_CATEGORY, Num(0)>>)
             ELSE Returned(<<category, PyMax(Num(0), PyMin(Num(1000), conf_f))>>)

\* clean_html_to_text on text without markup or entities
clean_html_to_text(raw) == IF raw = <<>> THEN <<>> ELSE CollapseAndStrip(raw)

_CATEGORY_TO_LABEL(c) ==
    CASE c = "Agile" -> "agile" [] c = "DevOps" -> "devops"
      [] c = "Architecture/Infra" -> "architecture" [] c = "Leadership" -> "leadership"
      [] OTHER -> "uncategorized"
labels_for_article(a) == <<"draft", _CATEGORY_TO_LABEL(a.category)>>
format_issue_title(a) == <<IF a.category = None THEN "Uncategorized" ELSE a.category, a.title>>

RunArticles ==
    {Article(<<97>>, "u1", "Example Feed", <<120>>, NoDate, None),
     Article(<<98>>, "u2", "Example Feed", <<32, 121>>, NoDate, None)}

\* what gh.create_issue can do outside dry-run (see CreateIssueAttempt)
CreateIssueOutcomes(n) ==
    {Returned(n), Raised("GithubException: 422"), Raised("RuntimeError: Failed to create issue after retries")}

RunInit ==
    /\ run_dry_run \in BOOLEAN
    /\ run_fast_dry \in BOOLEAN
    /\ run_fast_dry => run_dry_run
    /\ run_token \in BOOLEAN
    /\ run_backend_ok \in BOOLEAN
    /\ run_max_total \in {NoLimit, Limit(1)}
    /\ run_fetched \in UNION {[1..n -> RunArticles] : n \in 0..MaxFetched}
    /\ Len(run_fetched) = Len(Truncate(run_fetched, run_max_total))
    /\ run_i = 0
    /\ run_art = NoArt
    /\ run_answer = NoResult
    /\ run_prior_titles = <<>>
    /\ run_marked = {}
    /\ run_issues = <<>>
    /\ run_processed = 0
    /\ run_pc = "ready"
    /\ run_error = None

\* the Deduplicator() of the Orchestrator: default arguments, the semantic
\* backend (numpy) not installed, no store file yet
RunDedupInit ==
    /\ config = DefaultConfig(TRUE)
    /\ np_available = FALSE
    /\ store_file = MissingFile
    /\ Constructed(store_file)
    /\ last_call = NoCall
    /\ marked_run = {}
    /\ saved_ever = {}
    /\ marks = 0
    /\ restarts = 0

\* lines 107-109: GitHubClient(dry_run=...) raises without a token
RunBegin ==
    /\ run_pc = "ready"
    /\ IF ~run_token /\ ~run_dry_run
       THEN run_pc' = "aborted" /\ run_error' = "RuntimeError: GITHUB_TOKEN not set"
       ELSE run_pc' = "loop" /\ UNCHANGED run_error
    /\ UNCHANGED <<run_dry_run, run_fast_dry, run_token, run_backend_ok, run_max_total, run_fetched, run_i, run_art, run_answer, run_prior_titles, run_marked, run_issues, run_processed>>
    /\ UNCHANGED <<dedupvars, NotRun>>

\* lines 126-139: take the next article, normalise it, ask the
\* Deduplicator, and record the article as seen when it is new
RunDeduplicate ==
    /\ run_pc = "loop"
    /\ run_i < Len(run_fetched)
    /\ LET raw == run_fetched[run_i + 1]
           art == [NoArt EXCEPT !.title = Strip(raw.title), !.url = raw.url,
                                !.source = raw.source,
                                !.raw_text = clean_html_to_text(raw.raw_text),
                                !.published_date = raw.published_date,
                                !.category = raw.category]
           r == is_duplicate(art, run_prior_titles, seen_hashes, titles, embeddings,
                             enable_semantic, model_loaded, np_available, config, TRUE, TRUE)
           hashes1 == HashesAfterMark(art, seen_hashes)
           titles1 == TitlesAfterMark(art, titles)
       IN  /\ run_i' = run_i + 1
           /\ IF r.dup
              THEN /\ run_pc' = "loop"
                   /\ run_art' = NoArt
                   /\ UNCHANGED <<seen_hashes, titles, store_file, saved_ever, marked_run, run_prior_titles, run_marked>>
              ELSE /\ run_pc' = "classify"
                   /\ run_art' = art
                   /\ seen_hashes' = hashes1
                   /\ titles' = titles1
                   /\ store_file' = SavePayload(hashes1, titles1)
                   /\ saved_ever' = saved_ever \cup {art}
                   /\ marked_run' = marked_run \cup {art}
                   /\ run_prior_titles' = Append(run_prior_titles, art.title)
                   /\ run_marked' = run_marked \cup {run_i + 1}
    /\ run_answer' = NoResult
    /\ UNCHANGED <<embeddings, enable_semantic, model_loaded, np_available, config, last_call, marks, restarts>>
    /\ UNCHANGED <<run_dry_run, run_fast_dry, run_token, run_backend_ok, run_max_total, run_fetched, run_issues, run_processed, run_error>>
    /\ UNCHANGED NotRun

\* lines 141-155
RunClassify ==
    /\ run_pc = "classify"
    /\ IF run_fast_dry
       THEN /\ run_answer' = NoResult
            /\ run_art' = [run_art EXCEPT !.category = Or(run_art.category, DEFAULT_CATEGORY),
                                          !.confidence_score = Num(0)]
       ELSE \E outcome \in ClassifyOutcomes :
              /\ run_backend_ok \/ outcome.kind = "raise"
              /\ LET r == classify_text(outcome)
                     category == IF r.kind = "raise" THEN DEFAULT_CATEGORY ELSE r.value[1]
                     conf == IF r.kind = "raise" THEN Num(0) ELSE r.value[2]
                 IN  /\ run_answer' = outcome
                     /\ run_art' = [run_art EXCEPT !.category = category, !.confidence_score = conf]
    /\ run_pc' = "summarize"
    /\ UNCHANGED <<run_dry_run, run_fast_dry, run_token, run_backend_ok, run_max_total, run_fetched, run_i, run_prior_titles, run_marked, run_issues, run_processed, run_error>>
    /\ UNCHANGED <<dedupvars, NotRun>>

\* lines 157-175: the summary (summarize_text raises at its first use of
\* `os`, which summarize.py does not import) and the impact points, whose
\* create_ai_client() call is outside every try
RunSummarize ==
    /\ run_pc = "summarize"
    /\ run_art' = [run_art EXCEPT !.summary =
                      IF run_fast_dry
                      THEN JoinSpace(SliceTo(Words(run_art.raw_text), SUMMARY_WORDS))
                      ELSE SUMMARY_PENDING]
    /\ IF run_backend_ok
       THEN run_pc' = "issue" /\ UNCHANGED run_error
       ELSE run_pc' = "aborted" /\ run_error' = "ValueError: Unsupported PROCESSING_BACKEND"
    /\ UNCHANGED <<run_dry_run, run_fast_dry, run_token, run_backend_ok, run_max_total, run_fetched, run_i, run_answer, run_prior_titles, run_marked, run_issues, run_processed>>
    /\ UNCHANGED <<dedupvars, NotRun>>

\* lines 177-194
RunCreateIssue ==
    /\ run_pc = "issue"
    /\ \E outcome \in (IF run_dry_run THEN {Returned(None)} ELSE CreateIssueOutcomes(Len(run_issues) + 1)) :
         IF outcome.kind = "raise"
         THEN /\ run_pc' = "aborted"
              /\ run_error' = outcome.exc
              /\ UNCHANGED <<run_issues, run_processed>>
         ELSE /\ run_issues' = Append(run_issues, [item |-> run_i, title |-> format_issue_title(run_art), labels |-> labels_for_article(run_art), number |-> outcome.value])
              /\ run_processed' = run_processed + 1
              /\ run_pc' = IF run_max_total.given /\ run_max_total.n >= 0 /\ run_processed + 1 >= run_max_total.n
                           THEN "done" ELSE "loop"
              /\ UNCHANGED run_error
    /\ run_art' = NoArt
    /\ run_answer' = NoResult
    /\ UNCHANGED <<run_dry_run, run_fast_dry, run_token, run_backend_ok, run_max_total, run_fetched, run_i, run_prior_titles, run_marked>>
    /\ UNCHANGED <<dedupvars, NotRun>>

\* the loop is exhausted: lines 205-213
RunFinish ==
    /\ run_pc = "loop"
    /\ run_i = Len(run_fetched)
    /\ run_pc' = "done"
    /\ UNCHANGED <<run_dry_run, run_fast_dry, run_token, run_backend_ok, run_max_total, run_fetched, run_i, run_art, run_answer, run_prior_titles, run_marked, run_issues, run_processed, run_error>>
    /\ UNCHANGED <<dedupvars, NotRun>>

RunNext ==
    \/ RunBegin
    \/ RunDeduplicate
    \/ RunClassify
    \/ RunSummarize
    \/ RunCreateIssue
    \/ RunFinish

RunStart == RunInit /\ RunDedupInit /\ SelIdle /\ GroupIdle /\ IssueIdle /\ RetryIdle /\ ArchiveIdle /\ FetchIdle /\ FilterIdle /\ PipeIdle

SpecRun == RunStart /\ [][RunNext]_vars

-----------------------------------------------------------------------------
(* Claims about Orchestrator.run *)

KnownCategory(c) == \E k \in 1..Len(_CATEGORIES) : _CATEGORIES[k] = c
InvalidCategoryReturned(answer) == answer.kind = "return" /\ answer.value.pair /\ ~KnownCategory(answer.value.category)

\* C26: whatever the classification collaborator returns or raises, the
\* classification step of run ends with a known category and a confidence
\* in [0, 1] on the article, the default category with confidence 0.0 when
\* the returned category was invalid, and run goes on (to summarising the
\* article) instead of aborting.
C26_ClassificationFailsClosed ==
    [][run_pc = "classify" =>
          /\ run_pc' = "summarize"
          /\ run_error' = None
          /\ KnownCategory(run_art'.category)
          /\ run_art'.confidence_score.kind = "num"
          /\ run_art'.confidence_score.milli >= 0
          /\ run_art'.confidence_score.milli <= 1000
          /\ InvalidCategoryReturned(run_answer') =>
                /\ run_art'.category = DEFAULT_CATEGORY
                /\ run_art'.confidence_score = Num(0)]_vars

\* the second article of a run got an out-of-enum category and the default
C26_Witness ==
    /\ run_pc = "summarize"
    /\ run_i = 2
    /\ Len(run_issues) = 1
    /\ run_answer = Returned(Pair("Other", Num(900)))
    /\ run_art.category = DEFAULT_CATEGORY

\* C30: whenever run has ended or aborted, every article it recorded in the
\* Seen-Store has its issue created (or logged, in dry-run).
C30_NoArticleSeenWithoutIssue ==
    run_pc \in {"done", "aborted"} =>
        \A i \in run_marked : \E k \in 1..Len(run_issues) : run_issues[k].item = i

-----------------------------------------------------------------------------
(* filter_high_priority (analysis/priority_analyzer.py) *)

MaxFilterInput == 3          \* longest list handed to filter_high_priority
MaxFilterTopN == 2           \* largest generated top_n
FILTER_DEFAULT_LIMIT == 1000 \* limit = top_n or 1000
FILTER_MIN_SCORE == 600      \* min_score: float = 0.6

\* it.score >= min_score, the score being scaled by 1000 * horizon_days
ScoreAtLeast(it, min_score, horizon_weeks) == it.score >= min_score * Max(7, horizon_weeks * 7)

filter_high_priority(arts, horizon_weeks, min_score, topn) ==
    LET limit == IF topn.given /\ topn.n # 0 THEN topn.n ELSE FILTER_DEFAULT_LIMIT
        prioritized == prioritize_articles(arts, horizon_weeks, limit)
    IN  SelectSeq(prioritized, LAMBDA it : ScoreAtLeast(it, min_score, horizon_weeks))

MinScoreChoices == {0, FILTER_MIN_SCORE, 700, 850}

FilterInit ==
    /\ fh_articles \in UNION {[1..n -> SelArticles] : n \in 0..MaxFilterInput}
    /\ fh_min_score \in MinScoreChoices
    /\ fh_top_n \in {NoLimit} \cup {Limit(n) : n \in 0..MaxFilterTopN}
    /\ fh_result = <<>>
    /\ fh_pc = "input"

FilterHighPriority ==
    /\ fh_pc = "input"
    /\ fh_result' = filter_high_priority(fh_articles, DEFAULT_HORIZON_WEEKS, fh_min_score, fh_top_n)
    /\ fh_pc' = "done"
    /\ UNCHANGED <<fh_articles, fh_min_score, fh_top_n>>
    /\ UNCHANGED NotFilter

FilterNext ==
    \/ FilterHighPriority

FilterStart == FilterInit /\ SelIdle /\ DedupIdle /\ GroupIdle /\ IssueIdle /\ RetryIdle /\ ArchiveIdle /\ FetchIdle /\ RunIdle /\ PipeIdle

SpecFilter == FilterStart /\ [][FilterNext]_vars

\* the top_n highest-ranked items, in rank order
TopRanked(n) == SliceTo(SortDesc(ScoreAll(fh_articles, Max(7, DEFAULT_HORIZON_WEEKS * 7))), n)

\* C27: for every given top_n >= 0 the result holds, in rank order,
\* exactly those of the top_n highest-ranked items whose score is at least
\* min_score.
C27_FilterWithinTopN ==
    (fh_pc = "done" /\ fh_top_n.given /\ fh_top_n.n >= 0) =>
        fh_result = SelectSeq(TopRanked(fh_top_n.n),
                              LAMBDA it : ScoreAtLeast(it, fh_min_score, DEFAULT_HORIZON_WEEKS))

-----------------------------------------------------------------------------
(* Grouped issues: pipeline/issue_pipeline.py run_auto_issue_pipeline with  *)
(* GitHubClient.create_issues_batch and the DuplicateTracker                *)

MaxPipeInput == 3            \* longest list handed to the pipeline
MaxPipeRuns == 2             \* pipeline runs in one behaviour

PIPELINE_MIN_SCORE == 700    \* min_score: float = 0.7

\* Optional[int] returned by create_issue: None (dry-run) or the number
NoIssue == [created |-> FALSE]
IssueNo(n) == [created |-> TRUE, n |-> n]

\* sha256(value).hexdigest(): different texts, different digests
_hash_text(value) == <<"sha256", value>>

IssueRecord(title_hash, url_hashes, issue_number) == [title_hash |-> title_hash, url_hashes |-> url_hashes, issue_number |-> issue_number]

\* three articles that rank above min_score, each a topic of its own, and
\* one that ranks below
PipeArticles ==
    {Article(<<97, 98, 99, 100>>, "u1", "Martin Fowler Blog", <<>>, Aged(0), "Agile"),
     Article(<<101, 102, 103, 104>>, "u2", "Martin Fowler Blog", <<>>, Aged(0), "DevOps"),
     Article(<<105, 106, 107, 108>>, "u3", "Martin Fowler Blog", <<>>, Aged(0), "Leadership"),
     Article(<<109, 110, 111, 112>>, "u4", "Example Feed", <<>>, NoDate, None)}

PipeInputs ==
    {arts \in UNION {[1..n -> PipeArticles] : n \in 0..MaxPipeInput} :
        \A i, j \in 1..Len(arts) : arts[i] = arts[j] => i = j}

GroupUrls(grp) == [k \in 1..Len(grp) |-> grp[k].article.url]
GroupUrlHashes(grp) == [k \in 1..Len(grp) |-> _hash_text(grp[k].article.url)]

\* the history left by an earlier run that created issue 1 for "abcd"
EarlierRecord == IssueRecord(_hash_text(<<97, 98, 99, 100>>), <<_hash_text("u1")>>, 1)
EarlierIssue == [number |-> 1, urls |-> <<"u1">>]

\* has_seen_articles
has_seen_articles(records, grp) ==
    \/ \E k \in 1..Len(grp), r \in 1..Len(records) :
          records[r].title_hash = _hash_text(grp[k].article.title)
    \/ \E k \in 1..Len(grp), r \in 1..Len(records) :
          \E u \in 1..Len(records[r].url_hashes) :
              records[r].url_hashes[u] = _hash_text(grp[k].article.url)

\* lines 58-60: `for grp, num in zip(groups, results)` with record_issue
RECURSIVE RecordLoop(_, _, _, _)
RecordLoop(records, grps, results, k) ==
    IF k > Min(Len(grps), Len(results)) THEN records
    ELSE RecordLoop(IF results[k].created
                    THEN Append(records, IssueRecord(_hash_text(grps[k][1].article.title), GroupUrlHashes(grps[k]), results[k].n))
                    ELSE records,
                    grps, results, k + 1)

PipeInit ==
    /\ pl_articles \in PipeInputs
    /\ pl_dry_run \in BOOLEAN
    /\ pl_token \in BOOLEAN
    /\ \E earlier \in BOOLEAN :
         /\ pl_history = IF earlier THEN <<EarlierRecord>> ELSE <<>>
         /\ pl_tracker = IF earlier THEN <<EarlierIssue>> ELSE <<>>
    /\ pl_groups = <<>>
    /\ pl_payloads = <<>>
    /\ pl_results = <<>>
    /\ pl_records = <<>>
    /\ pl_runs = 0
    /\ pl_pc = "ready"
    /\ pl_return = NoResult

\* lines 33-53: rank and filter, group, load the history, build the payloads
PipelinePrepare ==
    /\ pl_pc = "ready"
    /\ pl_runs < MaxPipeRuns
    /\ pl_runs' = pl_runs + 1
    /\ LET prioritized == filter_high_priority(pl_articles, DEFAULT_HORIZON_WEEKS, PIPELINE_MIN_SCORE, NoLimit)
           high == [i \in 1..Len(prioritized) |-> prioritized[i].article]
           grps == group_related_articles(high, DEFAULT_MAX_PER_GROUP)
       IN  /\ pl_groups' = grps
           /\ IF grps = <<>>
              THEN /\ pl_pc' = "returned"
                   /\ pl_return' = Returned(<<>>)
                   /\ pl_payloads' = <<>>
                   /\ pl_records' = <<>>
              ELSE /\ pl_records' = pl_history
                   /\ IF ~pl_token /\ ~pl_dry_run
                      THEN /\ pl_pc' = "raised"
                           /\ pl_return' = Raised("RuntimeError: GITHUB_TOKEN not set")
                           /\ pl_payloads' = <<>>
                      ELSE /\ pl_pc' = "batch"
                           /\ pl_return' = NoResult
                           /\ pl_payloads' = SelectSeq([g \in 1..Len(grps) |-> g], LAMBDA g : ~has_seen_articles(pl_history, grps[g]))
    /\ pl_results' = <<>>
    /\ UNCHANGED <<pl_articles, pl_dry_run, pl_token, pl_history, pl_tracker>>
    /\ UNCHANGED NotPipe

\* create_issues_batch, lines 121-127: one payload; create_issue returns
\* None in dry-run, else the number of the new issue, or raises
PipelineCreateIssue ==
    /\ pl_pc = "batch"
    /\ Len(pl_results) < Len(pl_payloads)
    /\ LET grp == pl_groups[pl_payloads[Len(pl_results) + 1]]
       IN  IF pl_dry_run
           THEN /\ pl_results' = Append(pl_results, NoIssue)
                /\ UNCHANGED <<pl_tracker, pl_pc, pl_return>>
           ELSE \E ok \in BOOLEAN :
                  IF ok
                  THEN /\ pl_tracker' = Append(pl_tracker, [number |-> Len(pl_tracker) + 1, urls |-> GroupUrls(grp)])
                       /\ pl_results' = Append(pl_results, IssueNo(Len(pl_tracker) + 1))
                       /\ UNCHANGED <<pl_pc, pl_return>>
                  ELSE /\ pl_pc' = "raised"
                       /\ pl_return' = Raised("RuntimeError: Failed to create issue after retries")
                       /\ UNCHANGED <<pl_tracker, pl_results>>
    /\ UNCHANGED <<pl_articles, pl_dry_run, pl_token, pl_groups, pl_payloads, pl_records, pl_history, pl_runs>>
    /\ UNCHANGED NotPipe

\* lines 55-62: the batch is through; record the created issues and return
PipelineRecord ==
    /\ pl_pc = "batch"
    /\ Len(pl_results) = Len(pl_payloads)
    /\ pl_records' = RecordLoop(pl_records, pl_groups, pl_results, 1)
    /\ pl_history' = IF RecordLoop(pl_records, pl_groups, pl_results, 1) # pl_records
                     THEN RecordLoop(pl_records, pl_groups, pl_results, 1) ELSE pl_history
    /\ pl_pc' = "returned"
    /\ pl_return' = Returned(pl_results)
    /\ UNCHANGED <<pl_articles, pl_dry_run, pl_token, pl_groups, pl_payloads, pl_results, pl_tracker, pl_runs>>
    /\ UNCHANGED NotPipe

\* a later run over the same articles
PipelineRunAgain ==
    /\ pl_pc \in {"returned", "raised"}
    /\ pl_runs < MaxPipeRuns
    /\ pl_pc' = "ready"
    /\ pl_groups' = <<>>
    /\ pl_payloads' = <<>>
    /\ pl_results' = <<>>
    /\ pl_records' = <<>>
    /\ pl_return' = NoResult
    /\ UNCHANGED <<pl_articles, pl_dry_run, pl_token, pl_history, pl_tracker, pl_runs>>
    /\ UNCHANGED NotPipe

PipeNext ==
    \/ PipelinePrepare
    \/ PipelineCreateIssue
    \/ PipelineRecord
    \/ PipelineRunAgain

PipeStart == PipeInit /\ SelIdle /\ DedupIdle /\ GroupIdle /\ IssueIdle /\ RetryIdle /\ ArchiveIdle /\ FetchIdle /\ RunIdle /\ FilterIdle

SpecPipe == PipeStart /\ [][PipeNext]_vars

\* C29: when the pipeline (not dry-run) has returned or raised, every issue
\* in the tracker has a history record with its number and the URL hashes of
\* the group it was created for, and no group has two issues.
C29_IssueRecordedForItsGroup ==
    (pl_pc \in {"returned", "raised"} /\ ~pl_dry_run) =>
        /\ \A k \in 1..Len(pl_tracker) :
              \E r \in 1..Len(pl_history) :
                  /\ pl_history[r].issue_number = pl_tracker[k].number
                  /\ pl_history[r].url_hashes = [u \in 1..Len(pl_tracker[k].urls) |-> _hash_text(pl_tracker[k].urls[u])]
        /\ \A j, k \in 1..Len(pl_tracker) :
              pl_tracker[j].urls = pl_tracker[k].urls => j = k

====
